---- MODULE Spec2Model ----
(***************************************************************************)
(* Model of LLMSpecificationGenerator (src/src/implementations/            *)
(* specification_generator.rs): the generation / validation / auto-repair  *)
(* pipeline (Spec), and one call at a time of the Validator's parsing      *)
(* (ValidatorSpec), of parse_formal_specification (ParserSpec), of the     *)
(* gateway call_llm_api with get_api_key of config.rs (GatewaySpec), of    *)
(* render_template (RendererSpec) and of generate / refine / translate /   *)
(* fix_specification (LifecycleSpec); two concurrent invocations of the    *)
(* repair loop (ConcurrentSpec); the synchronous facade of main.rs         *)
(* running the pipeline on a worker thread (FacadeSpec); the prompt built  *)
(* by fix_specification (FixPromptSpec); get_error_context                 *)
(* (ErrorContextSpec); and the pipeline when every gateway call returns    *)
(* (TerminationSpec).                                                      *)
(*                                                                         *)
(* Text is abstracted as a sequence of lines.  A line is a record          *)
(*   [pre   : the fixed prefix the line starts with ("" when none),        *)
(*    num   : the number embedded in the line (0 when it has none),        *)
(*    words : the set of the substrings of interest the line contains].    *)
(* A text is [lines : Seq(line), nl : whether the last line ends in \n].   *)
(* The prefix of a fence line (three backticks) is written "FENCE", and    *)
(* "FENCE_TAG" when a language tag follows the backticks.  Of an import    *)
(* line, pre is the import prefix, with the blanks before it if any, and   *)
(* words holds the text that follows the prefix.                           *)
(* Option<T> is the empty tuple (None) or a 1-tuple (Some).                *)
(***************************************************************************)
EXTENDS Integers, Sequences, FiniteSets, TLC

\* ------------------------------------------------------------------ bounds
\* most issue lines in one model answer to a review prompt
MaxIssueLines == 1
\* most lines in the answer handed to one validate_* call
MaxAnswerLines == 3
\* most lines in the answer handed to one parse_formal_specification call
MaxContentLines == 3
\* most calls of render_template on one mapping
MaxRenders == 2
\* most Specification values made in one run of generate / refine /
\* translate / fix calls
MaxSpecs == 3
\* most issues in the report handed to one fix_specification call
MaxPromptIssues == 2

\* ------------------------------------------------------- program constants
MAX_RETRIES == 3

\* --------------------------------------------------------------- options
None == <<>>
Some(x) == <<x>>
IsSome(o) == o # <<>>

\* ------------------------------------------------------------------ text
Ln(pre, num, words) == [pre |-> pre, num |-> num, words |-> words]
Text(lines, nl) == [lines |-> lines, nl |-> nl]
EmptyText == Text(<<>>, FALSE)

\* str::starts_with on a line
StartsWith(line, p) == line.pre = p \/ (p = "FENCE" /\ line.pre = "FENCE_TAG")

\* str::contains on a line (case-sensitive)
Contains(line, w) == w \in line.words

\* char-wise str::to_lowercase of the substrings of interest
KnownLower ==
  [w \in {"Type", "Error", "Warning", "Anthropic", "Undefined",
          "The specification syntax is valid: True",
          "The Specification Can Be Formally Verified: TRUE"} |->
     CASE w = "Type" -> "type"
       [] w = "Undefined" -> "undefined"
       [] w = "Error" -> "error"
       [] w = "Warning" -> "warning"
       [] w = "Anthropic" -> "anthropic"
       [] w = "The Specification Can Be Formally Verified: TRUE" ->
            "the specification can be formally verified: true"
       [] OTHER -> "the specification syntax is valid: true"]

ToLowercase(w) == IF w \in DOMAIN KnownLower THEN KnownLower[w] ELSE w

\* response.to_lowercase().contains(phrase) on a whole text
LowerContains(text, phrase) ==
  \E i \in 1..Len(text.lines) :
    phrase \in {ToLowercase(w) : w \in text.lines[i].words}

\* ------------------------------------------------------------ data model
Depths == {"Basic", "TypeCheck", "FormalVerification"}

Issue(sev, msg, line, fix) ==
  [severity |-> sev, message |-> msg, related_property |-> None,
   line_number |-> line, suggested_fix |-> fix]

Report(valid, issues, out) ==
  [is_valid |-> valid, issues |-> issues, tool_validated |-> FALSE,
   tool_output |-> out]

\* Specification: id is the number of "_fixed" suffixes on the original id
Specification(id, code) == [id |-> id, spec_code |-> code]

Ok(r) == [kind |-> "ok", report |-> Some(r), error |-> ""]
Err(e) == [kind |-> "err", report |-> None, error |-> e]
NoResult == [kind |-> "none", report |-> None, error |-> ""]

\* impl From<SpecGenError> for AxiomError
AxiomErrorFrom(e) ==
  CASE e = "ApiError" -> "ExternalToolError:LLM API"
    [] e = "NetworkError" -> "ExternalToolError:Network"
    [] e = "HttpError" -> "ExternalToolError:HTTP"
    [] e = "ParseError" -> "SpecTranslationError"
    [] e = "TemplateError" -> "SpecTranslationError"
    [] OTHER -> "SystemError"

\* the errors one call_llm_api can return
GatewayErrors == {"ApiError", "NetworkError", "HttpError", "ParseError"}

\* ------------------------------------------------------------ get_api_key
\* let providers = vec![ .. ], in declaration order
Providers == <<"openai", "anthropic", "azure", "mistral", "together">>

\* the environment variable of a provider; "UNKNOWN" when it has none
EnvVarName(provider) ==
  CASE provider = "openai" -> "OPENAI_API_KEY"
    [] provider = "anthropic" -> "ANTHROPIC_API_KEY"
    [] provider = "azure" -> "AZURE_OPENAI_API_KEY"
    [] provider = "mistral" -> "MISTRAL_API_KEY"
    [] provider = "together" -> "TOGETHER_API_KEY"
    [] OTHER -> "UNKNOWN"

\* Result<(String, String), ConfigError>; a key read from the environment
\* is written as the name of its variable
KeyOk(provider, key) == [kind |-> "ok", provider |-> provider, key |-> key]
KeyErr(e) == [kind |-> "err", provider |-> "", key |-> e]
NoKey == [kind |-> "none", provider |-> "", key |-> ""]

\* mutant: the provider list is walked before the preferred provider's
\* variable is read
GetApiKey_listFirst(api_key, env, preferred_provider) ==
  IF IsSome(api_key) THEN KeyOk(preferred_provider, api_key[1])
  ELSE LET available == SelectSeq(Providers, LAMBDA p : EnvVarName(p) \in env)
       IN  IF available # <<>>
           THEN KeyOk(available[1], EnvVarName(available[1]))
           ELSE KeyErr("MissingApiKey")

\* GeneratorConfig::get_api_key; api_key is llm_api.api_key, env the set
\* of the environment variables that are set
GetApiKey(api_key, env, preferred_provider) ==
  IF IsSome(api_key) THEN KeyOk(preferred_provider, api_key[1])
  ELSE LET env_var_name == EnvVarName(ToLowercase(preferred_provider))
           others == SelectSeq(Providers,
                       LAMBDA p : p # ToLowercase(preferred_provider)
                                    /\ EnvVarName(p) \in env)
       IN  IF env_var_name # "UNKNOWN" /\ env_var_name \in env
           THEN KeyOk(preferred_provider, env_var_name)
           ELSE IF others # <<>>
           THEN KeyOk(others[1], EnvVarName(others[1]))
           ELSE KeyErr("MissingApiKey")

\* ----------------------------------------------------------- call_llm_api
\* Result<String, SpecGenError>, or the panic of the Azure branch
GwOk(text) == [kind |-> "ok", text |-> Some(text), error |-> "", detail |-> ""]
GwErr(e, detail) == [kind |-> "err", text |-> None, error |-> e, detail |-> detail]
GwPanic == [kind |-> "panic", text |-> None, error |-> "", detail |-> ""]
GwNone == [kind |-> "none", text |-> None, error |-> "", detail |-> ""]

\* let (api_endpoint, model) = match provider.as_str() { .. }: the endpoint,
\* None when the Azure branch panics
ApiEndpoint(provider, api_endpoint) ==
  CASE provider = "openai" ->
         Some(IF IsSome(api_endpoint) THEN api_endpoint[1]
              ELSE "https://api.openai.com/v1/chat/completions")
    [] provider = "anthropic" -> Some("https://api.anthropic.com/v1/messages")
    [] provider = "azure" -> api_endpoint
    [] provider = "mistral" -> Some("https://api.mistral.ai/v1/chat/completions")
    [] provider = "together" -> Some("https://api.together.xyz/v1/completions")
    [] OTHER -> Some("https://api.openai.com/v1/chat/completions")

\* the request handed to http_client: the header that carries the key
HttpRequest(provider, endpoint, key) ==
  [provider |-> provider, endpoint |-> endpoint,
   auth |-> IF provider = "anthropic" THEN "x-api-key" ELSE "Authorization: Bearer",
   key |-> key]

\* the body of a response: unreadable, not JSON, or a JSON value of which
\* content, completion and choices are looked at; complete says that the
\* other fields of ChatResponse are there
JsonBody(content, completion, choices, complete) ==
  [kind |-> "json", content |-> content, completion |-> completion,
   choices |-> choices, complete |-> complete]
Absent == [t |-> "absent", text |-> None, items |-> <<>>]
JsonString(text) == [t |-> "string", text |-> Some(text), items |-> <<>>]
JsonArray(items) == [t |-> "array", text |-> None, items |-> items]

\* what comes back for a request: nothing yet, a failure of send(), or a
\* response with its status and body
NoResponse == [kind |-> "none", status |-> 0, body |-> [kind |-> "none"]]
SendFailure == [kind |-> "failed", status |-> 0, body |-> [kind |-> "none"]]
HttpResponse(status, body) == [kind |-> "response", status |-> status, body |-> body]

\* SpecGenError::HttpError { status, message }: message is the body, or a
\* fixed text when the body cannot be read
HttpError(status, body) ==
  [status |-> status,
   message |-> IF body.kind = "unreadable"
               THEN [kind |-> "Failed to get error message"] ELSE body]

\* the Anthropic branch, once the body of a 2xx response is there
AnthropicContent(body) ==
  IF body.kind # "json" THEN GwErr("ParseError", body.kind)
  ELSE IF body.content.t = "array"
  THEN IF body.content.items # <<>>
       THEN IF IsSome(body.content.items[1].text)
            THEN GwOk(body.content.items[1].text[1])
            ELSE GwErr("ParseError", "Missing text in Anthropic response content")
       ELSE GwErr("ParseError", "Empty content array in Anthropic response")
  ELSE IF body.content.t = "string" THEN GwOk(body.content.text[1])
  ELSE IF IsSome(body.completion) THEN GwOk(body.completion[1])
  ELSE GwErr("ParseError", "Unable to find content in Anthropic response")

\* serde_json::from_str::<ChatResponse> succeeds
ParsesAsChatResponse(body) ==
  /\ body.complete
  /\ body.choices.t = "array"
  /\ \A k \in 1..Len(body.choices.items) :
       body.choices.items[k].well_formed /\ IsSome(body.choices.items[k].text)

\* the branch of the OpenAI-style providers
OpenAiContent(body) ==
  IF body.kind # "json" THEN GwErr("ParseError", body.kind)
  ELSE IF /\ body.choices.t = "array"
          /\ body.choices.items # <<>>
          /\ IsSome(body.choices.items[1].text)
  THEN GwOk(body.choices.items[1].text[1])
  ELSE IF ~ParsesAsChatResponse(body)
  THEN GwErr("ParseError", "Failed to parse API response")
  ELSE IF body.choices.items = <<>>
  THEN GwErr("ApiError", "No response from API")
  ELSE GwOk(body.choices.items[1].text[1])

\* -------------------------------------------------------- render_template
\* A template and a parameter value are sequences of tokens; a token is a
\* piece of literal text or a placeholder, written with its braces.

\* format!("{{{{{}}}}}", key)
Placeholder(key) ==
  CASE key = "domain" -> "{{domain}}"
    [] key = "requirements" -> "{{requirements}}"
    [] key = "verification_language" -> "{{verification_language}}"
    [] OTHER -> "{{?}}"

RECURSIVE Replace(_, _, _)
\* str::replace(placeholder, value): the text put in is not searched again
Replace(tokens, placeholder, value) ==
  IF tokens = <<>> THEN <<>>
  ELSE (IF Head(tokens) = placeholder THEN value ELSE <<Head(tokens)>>)
         \o Replace(Tail(tokens), placeholder, value)

RECURSIVE ReplaceEach(_, _, _, _)
\* for (key, value) in params: order is the order in which the HashMap
\* hands out its entries
ReplaceEach(result, params, order, i) ==
  IF i > Len(order) THEN result
  ELSE ReplaceEach(Replace(result, Placeholder(order[i]), params[order[i]]),
                   params, order, i + 1)

RenderOk(text) == [kind |-> "ok", text |-> text, error |-> ""]
RenderErr(e) == [kind |-> "err", text |-> <<>>, error |-> e]

\* mutant: a missing template renders as the empty prompt
RenderTemplateIn_emptyPrompt(templates, name, params, order) ==
  IF name \notin DOMAIN templates THEN RenderOk(<<>>)
  ELSE RenderOk(ReplaceEach(templates[name], params, order, 1))

\* render_template(template_name, params), the entries visited in order
RenderTemplateIn(templates, name, params, order) ==
  IF name \notin DOMAIN templates THEN RenderErr("TemplateError")
  ELSE RenderOk(ReplaceEach(templates[name], params, order, 1))

\* ------------------------------------------------- parse_formal_specification
RECURSIVE ExtractCode(_, _, _, _)
\* the loop over content.lines(): acc is extracted_code as lines, each
\* pushed with a trailing newline
ExtractCode(lines, i, in_code_block, acc) ==
  IF i > Len(lines) THEN acc
  ELSE IF StartsWith(lines[i], "FENCE")
       THEN ExtractCode(lines, i + 1, ~in_code_block, acc)
       ELSE IF in_code_block
            THEN ExtractCode(lines, i + 1, in_code_block, Append(acc, lines[i]))
            ELSE ExtractCode(lines, i + 1, in_code_block, acc)

\* HashMap::insert
Insert(map, key, value) ==
  [k \in DOMAIN map \cup {key} |-> IF k = key THEN value ELSE map[k]]

RECURSIVE ExtractComponents(_, _, _)
\* the same loop, for components: the key 0 stands for "description" and the
\* key n > 0 for format!("component_{}", n)
ExtractComponents(lines, i, st) ==
  IF i > Len(lines)
  THEN IF st.current_component # <<>> /\ IsSome(st.current_component_name)
       THEN Insert(st.components, st.current_component_name[1],
                   Text(st.current_component, TRUE))
       ELSE st.components
  ELSE IF StartsWith(lines[i], "FENCE")
  THEN LET in_code_block == ~st.in_code_block
           save == ~in_code_block /\ st.current_component # <<>>
           components ==
             IF save
             THEN Insert(st.components, st.current_component_name[1],
                         Text(st.current_component, TRUE))
             ELSE st.components
       IN ExtractComponents(lines, i + 1,
            [in_code_block |-> in_code_block,
             components |-> components,
             current_component |-> IF save THEN <<>> ELSE st.current_component,
             current_component_name |->
               IF lines[i].pre = "FENCE_TAG" /\ in_code_block
               THEN Some(Cardinality(DOMAIN components) + 1)
               ELSE st.current_component_name])
  ELSE IF st.in_code_block /\ IsSome(st.current_component_name)
  THEN ExtractComponents(lines, i + 1,
         [st EXCEPT !.current_component = Append(@, lines[i])])
  ELSE ExtractComponents(lines, i + 1, st)

\* the import prefixes of each notation
Patterns(language) ==
  CASE language = "FStarLang" -> <<"open ", "include ", "module ">>
    [] language = "DafnyLang" -> <<"import ">>
    [] language = "CoqLang" -> <<"Require Import ", "Require Export ">>
    [] language = "IsabelleLang" -> <<"imports ">>
    [] language = "LeanLang" -> <<"import ">>
    [] language = "TLAPlus" -> <<"EXTENDS ">>
    [] language = "Why3Lang" -> <<"use ">>
    [] language = "Z3SMT" -> <<"(include ">>
    [] OTHER -> <<>>

\* the prefix of line.trim()
TrimmedPre(line) == IF line.pre = "  open " THEN "open " ELSE line.pre

\* the text that follows the prefix of an import line
RestOf(line) == IF line.words = {} THEN "" ELSE CHOOSE w \in line.words : TRUE

\* .trim().split_whitespace().next().unwrap_or("")
FirstToken(rest) ==
  CASE rest = "Foo, Bar" -> "Foo,"
    [] rest = "let f x = x" -> "let"
    [] OTHER -> rest

\* .trim_end_matches(|c| c == ',' || c == ';')
TrimEndMatches(token) ==
  CASE token = "Foo;" -> "Foo"
    [] token = "Foo," -> "Foo"
    [] token = ";" -> ""
    [] OTHER -> token

\* mutant: an empty name is pushed too
DepsOfLine_keepEmpty(line, patterns) ==
  LET matching == SelectSeq(patterns, LAMBDA pattern : TrimmedPre(line) = pattern)
      dep == TrimEndMatches(FirstToken(RestOf(line)))
  IN  [k \in 1..Len(matching) |-> dep]

\* the loop over the patterns, for one line
DepsOfLine(line, patterns) ==
  LET matching == SelectSeq(patterns, LAMBDA pattern : TrimmedPre(line) = pattern)
      dep == TrimEndMatches(FirstToken(RestOf(line)))
  IN  IF dep # "" THEN [k \in 1..Len(matching) |-> dep] ELSE <<>>

RECURSIVE CollectDependencies(_, _, _, _)
CollectDependencies(lines, i, patterns, dependencies) ==
  IF i > Len(lines) THEN dependencies
  ELSE CollectDependencies(lines, i + 1, patterns,
         dependencies \o DepsOfLine(lines[i], patterns))

\* extract_dependencies(content, language)
ExtractDependencies(content, language) ==
  CollectDependencies(content.lines, 1, Patterns(language), <<>>)

\* mutant: the whole answer is the code unless a block was closed
ParseFormalSpecification_wholeUnlessClosed(content, verification_language) ==
  LET extracted == ExtractCode(content.lines, 1, FALSE, <<>>)
      fences == Len(SelectSeq(content.lines, LAMBDA l : StartsWith(l, "FENCE")))
      extracted_code == IF extracted = <<>> \/ fences < 2 THEN content
                        ELSE Text(extracted, TRUE)
  IN  [verification_language |-> verification_language,
       spec_code |-> extracted_code,
       components |->
         ExtractComponents(content.lines, 1,
           [in_code_block |-> FALSE, components |-> (0 :> content),
            current_component |-> <<>>, current_component_name |-> None]),
       dependencies |-> ExtractDependencies(extracted_code, verification_language)]

\* mutant: without a block the lines of the answer are joined again
ParseFormalSpecification_rejoined(content, verification_language) ==
  LET extracted == ExtractCode(content.lines, 1, FALSE, <<>>)
      extracted_code == IF extracted = <<>> THEN Text(content.lines, TRUE)
                        ELSE Text(extracted, TRUE)
  IN  [verification_language |-> verification_language,
       spec_code |-> extracted_code,
       components |->
         ExtractComponents(content.lines, 1,
           [in_code_block |-> FALSE, components |-> (0 :> content),
            current_component |-> <<>>, current_component_name |-> None]),
       dependencies |-> ExtractDependencies(extracted_code, verification_language)]

ParseFormalSpecification(content, verification_language) ==
  LET extracted == ExtractCode(content.lines, 1, FALSE, <<>>)
      extracted_code == IF extracted = <<>> THEN content
                        ELSE Text(extracted, TRUE)
  IN  [verification_language |-> verification_language,
       spec_code |-> extracted_code,
       components |->
         ExtractComponents(content.lines, 1,
           [in_code_block |-> FALSE, components |-> (0 :> content),
            current_component |-> <<>>, current_component_name |-> None]),
       dependencies |-> ExtractDependencies(extracted_code, verification_language)]

\* ------------------------------------------------ the Validator's parsing
\* mutant: "Warning" is looked for before "Error"
SeverityOf_warningFirst(line) ==
  IF Contains(line, "Warning") THEN "Warning"
  ELSE IF Contains(line, "Error") THEN "Error"
  ELSE "Info"

SeverityOf(line) ==
  IF Contains(line, "Error") THEN "Error"
  ELSE IF Contains(line, "Warning") THEN "Warning"
  ELSE "Info"

\* line.find("Line ") .. find(':') .. parse::<usize>() succeeded
LineNumberOf(line, current_line) ==
  IF line.num > 0 THEN Some(line.num) ELSE current_line

\* text after the "Suggestion:" prefix, trimmed
SuggestionOf(line) == Text(<<Ln("", line.num, line.words)>>, FALSE)

FlushIssue(st) ==
  IF st.current_issue # None
  THEN Append(st.issues,
              Issue(st.current_severity, st.current_issue[1],
                    st.current_line, st.current_suggestion))
  ELSE st.issues

\* mutant: the suggestion of the previous issue is carried over
BeginIssue_keepSuggestion(st, line) ==
  [issues |-> FlushIssue(st),
   current_issue |-> Some(line),
   current_line |-> LineNumberOf(line, st.current_line),
   current_severity |-> SeverityOf(line),
   current_suggestion |-> st.current_suggestion]

\* the branch of a line that starts with "Line " or "Location "
BeginIssue(st, line) ==
  [issues |-> FlushIssue(st),
   current_issue |-> Some(line),
   current_line |-> LineNumberOf(line, st.current_line),
   current_severity |-> SeverityOf(line),
   current_suggestion |-> None]

RECURSIVE ExtractIssuesLoop(_, _, _)
ExtractIssuesLoop(lines, i, st) ==
  IF i > Len(lines) THEN FlushIssue(st)
  ELSE LET line == lines[i] IN
    IF StartsWith(line, "Line ") \/ StartsWith(line, "Location ")
    THEN ExtractIssuesLoop(lines, i + 1, BeginIssue(st, line))
    ELSE IF StartsWith(line, "Suggestion:")
    THEN ExtractIssuesLoop(lines, i + 1,
           [st EXCEPT !.current_suggestion = Some(SuggestionOf(line))])
    ELSE ExtractIssuesLoop(lines, i + 1, st)

ExtractIssues(response) ==
  ExtractIssuesLoop(response.lines, 1,
    [issues |-> <<>>, current_issue |-> None, current_line |-> None,
     current_severity |-> "Info", current_suggestion |-> None])

\* mutant: an Error issue overrides the verdict phrase
ValidateSyntax_noErrorIssue(response) ==
  LET issues == ExtractIssues(response) IN
  Report((LowerContains(response, "the specification syntax is valid: true")
            \/ LowerContains(response, "is the specification syntax valid? true"))
           /\ ~ \E k \in 1..Len(issues) : issues[k].severity = "Error",
         issues, None)

\* mutant: the verdict sentence is looked for without lowering the answer
ValidateSyntax_caseSensitive(response) ==
  Report(\E i \in 1..Len(response.lines) :
           \/ Contains(response.lines[i], "the specification syntax is valid: true")
           \/ Contains(response.lines[i], "is the specification syntax valid? true"),
         ExtractIssues(response), None)

ValidateSyntax(response) ==
  Report(LowerContains(response, "the specification syntax is valid: true")
           \/ LowerContains(response, "is the specification syntax valid? true"),
         ExtractIssues(response), None)

\* mutant: the answer is kept as tool_output
ValidateTypeChecking_withOutput(response) ==
  Report(LowerContains(response, "the specification passes type checking: true")
           \/ LowerContains(response, "does the specification pass type checking? true"),
         ExtractIssues(response), Some(response))

ValidateTypeChecking(response) ==
  Report(LowerContains(response, "the specification passes type checking: true")
           \/ LowerContains(response, "does the specification pass type checking? true"),
         ExtractIssues(response), None)

ValidateFormalVerification(response) ==
  Report(LowerContains(response, "the specification can be formally verified: true")
           \/ LowerContains(response,
                "can the specification be formally verified as written? true"),
         ExtractIssues(response), Some(response))

\* match validation_depth { .. } on the answer of the review call
ValidateAt(depth, response) ==
  CASE depth = "Basic" -> ValidateSyntax(response)
    [] depth = "TypeCheck" -> ValidateTypeChecking(response)
    [] OTHER -> ValidateFormalVerification(response)

\* ------------------------------------- generate / refine / translate / fix
\* spec.metadata.verification_system = match language { .. }
VerificationSystemOf(language) ==
  CASE language = "FStarLang" -> "FStar"
    [] language = "DafnyLang" -> "Dafny"
    [] language = "CoqLang" -> "Coq"
    [] language = "IsabelleLang" -> "Isabelle"
    [] language = "LeanLang" -> "Lean"
    [] language = "TLAPlus" -> "TLA"
    [] language = "Why3Lang" -> "Why3"
    [] language = "Z3SMT" -> "Z3"
    [] OTHER -> language

\* confidence_score, an exact fraction
Fraction(num, den) == [num |-> num, den |-> den]
Times(a, b) == Fraction(a.num * b.num, a.den * b.den)
LessEq(a, b) == a.num * b.den <= b.num * a.den
Less(a, b) == a.num * b.den < b.num * a.den

\* mutant: a translation raises the score
TranslatedConfidence_raised(confidence_score) ==
  Times(confidence_score, Fraction(11, 10))

\* spec.metadata.confidence_score * 0.9
TranslatedConfidence(confidence_score) == Times(confidence_score, Fraction(9, 10))

\* the whole Specification struct; id is the first id and its suffixes
SpecificationValue(id, source_requirements, formal_properties, formal_spec, metadata) ==
  [id |-> id, source_requirements |-> source_requirements,
   formal_properties |-> formal_properties, formal_spec |-> formal_spec,
   metadata |-> metadata]

Metadata(verification_system, domain, confidence_score, is_formally_validated) ==
  [verification_system |-> verification_system, domain |-> domain,
   confidence_score |-> confidence_score,
   is_formally_validated |-> is_formally_validated]

\* mutant: the requirements are stored in reverse order
Generated_reversed(requirements, domain, language, response) ==
  SpecificationValue(<<"spec_now">>,
    [k \in 1..Len(requirements) |-> requirements[Len(requirements) + 1 - k]],
    <<>>, ParseFormalSpecification(response, language),
    Metadata(VerificationSystemOf(language), domain, Fraction(9, 10), FALSE))

\* the Specification built at the end of generate_specification
Generated(requirements, domain, language, response) ==
  SpecificationValue(<<"spec_now">>, requirements, <<>>,
    ParseFormalSpecification(response, language),
    Metadata(VerificationSystemOf(language), domain, Fraction(9, 10), FALSE))

\* the Specification built at the end of refine_specification
Refined(spec, response) ==
  SpecificationValue(Append(spec.id, "_refined"), spec.source_requirements,
    spec.formal_properties,
    ParseFormalSpecification(response, spec.formal_spec.verification_language),
    Metadata(spec.metadata.verification_system, spec.metadata.domain,
             spec.metadata.confidence_score, FALSE))

\* the Specification built at the end of translate_specification
Translated(spec, target_language, response) ==
  SpecificationValue(Append(spec.id, "_translated"), spec.source_requirements,
    spec.formal_properties,
    ParseFormalSpecification(response, target_language),
    Metadata(VerificationSystemOf(target_language), spec.metadata.domain,
             TranslatedConfidence(spec.metadata.confidence_score), FALSE))

\* mutant: the id of the parent is kept
Fixed_sameId(spec, response) ==
  SpecificationValue(spec.id, spec.source_requirements,
    spec.formal_properties,
    ParseFormalSpecification(response, spec.formal_spec.verification_language),
    spec.metadata)

\* the Specification built at the end of fix_specification
Fixed(spec, response) ==
  SpecificationValue(Append(spec.id, "_fixed"), spec.source_requirements,
    spec.formal_properties,
    ParseFormalSpecification(response, spec.formal_spec.verification_language),
    spec.metadata)

\* the facade function called: "validate" with its depth, "generate"
FacadeCall(op, depth) == [op |-> op, depth |-> depth]
NoFacadeCall == FacadeCall("none", "")

\* AxiomResult<bool> / AxiomResult<FormalSpecification> of the facade
FacadeOk(value) == [kind |-> "ok", value |-> Some(value), error |-> ""]
FacadeErr(e) == [kind |-> "err", value |-> None, error |-> e]
\* the caller's thread unwinds
FacadePanic == [kind |-> "panic", value |-> None, error |-> ""]

\* mutant: handle.join().unwrap()
JoinResult_unwrap(worker, r) ==
  IF worker = "panicked" THEN FacadePanic ELSE r[1]

\* match handle.join() { Ok(result) => result, Err(e) => Err(SystemError(..)) }
JoinResult(worker, r) ==
  IF worker = "panicked" THEN FacadeErr("SystemError") ELSE r[1]

\* a call and its arguments: op names the function ("given" for a value the
\* caller brought), parent is the position in the store of the &Specification
\* argument, requirements and language are the arguments of generate /
\* translate, is_valid is report.is_valid of fix
Call(op, parent, requirements, language, is_valid) ==
  [op |-> op, parent |-> parent, requirements |-> requirements,
   language |-> language, is_valid |-> is_valid]
NoCall == Call("none", 0, <<>>, "", FALSE)

\* a value of the store: the Specification and the call that returned it
Made(value, call) == [value |-> value, call |-> call]

\* AxiomResult<Specification>: the position of the returned value in the store
Returned(position) == [kind |-> "ok", position |-> position, error |-> ""]
Failed(e) == [kind |-> "err", position |-> 0, error |-> e]
NoReturn == [kind |-> "none", position |-> 0, error |-> ""]

\* -------------------------------------------------------- the repair prompt
\* In fix_specification the message of an issue is a sequence of tokens:
\* words, blanks and punctuation marks, none of which contains another;
\* "BACKTICK" stands for the backtick character.

\* msg.to_lowercase()
LowerMessage(msg) == [i \in 1..Len(msg) |-> ToLowercase(msg[i])]

\* str::contains of a word
MessageContains(msg, w) == \E i \in 1..Len(msg) : msg[i] = w

\* str::find of a pattern or of one of some characters, from position from
\* on: the position of the first occurrence, if any
FindPattern(msg, pattern, from) ==
  LET at == { i \in from..(Len(msg) - Len(pattern) + 1) :
                SubSeq(msg, i, i + Len(pattern) - 1) = pattern }
  IN IF at = {} THEN None ELSE Some(CHOOSE i \in at : \A j \in at : i <= j)
FindAny(msg, chars, from) ==
  LET at == { i \in from..Len(msg) : msg[i] \in chars }
  IN IF at = {} THEN None ELSE Some(CHOOSE i \in at : \A j \in at : i <= j)

\* str::trim
RECURSIVE TrimMessage(_)
TrimMessage(msg) ==
  IF msg = <<>> THEN msg
  ELSE IF Head(msg) = " " THEN TrimMessage(Tail(msg))
  ELSE IF msg[Len(msg)] = " " THEN TrimMessage(SubSeq(msg, 1, Len(msg) - 1))
  ELSE msg

\* let patterns = [ .. ] and let alt_patterns = [ .. ], in order
NamePatterns ==
  << <<"undefined", " ", "function", " ", "BACKTICK">>,
     <<"undefined", " ", "predicate", " ", "BACKTICK">>,
     <<"undefined", " ", "identifier", " ", "BACKTICK">>,
     <<"unknown", " ", "identifier", " ", "BACKTICK">>,
     <<"unbound", " ", "variable", " ", "BACKTICK">> >>
AltNamePatterns == [k \in 1..Len(NamePatterns) |-> SubSeq(NamePatterns[k], 1, 4)]

\* for pattern in &alt_patterns { .. }
RECURSIVE UnbracketedName(_, _)
UnbracketedName(error_message, k) ==
  IF k > Len(AltNamePatterns) THEN None
  ELSE LET start_idx == FindPattern(error_message, AltNamePatterns[k], 1) IN
    IF IsSome(start_idx)
    THEN LET start == start_idx[1] + Len(AltNamePatterns[k])
             end_idx == FindAny(error_message, {" ", ",", ".", ":"}, start)
             end == IF IsSome(end_idx) THEN end_idx[1] ELSE Len(error_message) + 1
         IN Some(TrimMessage(SubSeq(error_message, start, end - 1)))
    ELSE UnbracketedName(error_message, k + 1)

\* for pattern in &patterns { .. }, then the fallback
RECURSIVE BracketedName(_, _)
BracketedName(error_message, k) ==
  IF k > Len(NamePatterns) THEN UnbracketedName(error_message, 1)
  ELSE LET start_idx == FindPattern(error_message, NamePatterns[k], 1)
           start == start_idx[1] + Len(NamePatterns[k])
           end_idx == FindAny(error_message, {"BACKTICK"}, start)
       IN IF IsSome(start_idx) /\ IsSome(end_idx)
          THEN Some(TrimMessage(SubSeq(error_message, start, end_idx[1] - 1)))
          ELSE BracketedName(error_message, k + 1)

ExtractNameFromError(error_message) == BracketedName(error_message, 1)

\* the three buckets of fix_specification
Buckets(missing_functions, syntax_issues, type_errors) ==
  [missing_functions |-> missing_functions, syntax_issues |-> syntax_issues,
   type_errors |-> type_errors]

\* the body of `for issue in &report.issues`
ClassifyIssue(b, issue) ==
  LET msg == LowerMessage(issue.message) IN
  IF MessageContains(msg, "undefined")
       /\ (MessageContains(msg, "function") \/ MessageContains(msg, "predicate"))
  THEN LET name == ExtractNameFromError(issue.message) IN
       IF IsSome(name)
       THEN [b EXCEPT !.missing_functions = Append(@, name[1])]
       ELSE b
  ELSE IF MessageContains(msg, "syntax") \/ MessageContains(msg, "expected")
            \/ MessageContains(msg, "missing")
  THEN [b EXCEPT !.syntax_issues = Append(@, issue)]
  ELSE IF MessageContains(msg, "type")
  THEN [b EXCEPT !.type_errors = Append(@, issue)]
  ELSE b

RECURSIVE ClassifyIssues(_, _, _)
ClassifyIssues(issues, i, b) ==
  IF i > Len(issues) THEN b
  ELSE ClassifyIssues(issues, i + 1, ClassifyIssue(b, issues[i]))

\* one item of issue_list
IssueItem(issue) ==
  [line_info |-> issue.line_number, message |-> issue.message,
   severity |-> issue.severity, fix_info |-> issue.suggested_fix]

\* mutant: the syntax instruction is always given
SpecificFixes_alwaysSyntax(b) ==
  (IF b.missing_functions # <<>>
   THEN <<[instruction |-> "implement", names |-> b.missing_functions]>> ELSE <<>>)
  \o <<[instruction |-> "fix syntax", names |-> <<>>]>>
  \o (IF b.type_errors # <<>>
      THEN <<[instruction |-> "fix types", names |-> <<>>]>> ELSE <<>>)

\* specific_fixes: the IMPORTANT paragraphs, in the order they are pushed
SpecificFixes(b) ==
  (IF b.missing_functions # <<>>
   THEN <<[instruction |-> "implement", names |-> b.missing_functions]>> ELSE <<>>)
  \o (IF b.syntax_issues # <<>>
      THEN <<[instruction |-> "fix syntax", names |-> <<>>]>> ELSE <<>>)
  \o (IF b.type_errors # <<>>
      THEN <<[instruction |-> "fix types", names |-> <<>>]>> ELSE <<>>)

\* let prompt = format!(..): the arguments of the format string, in order
FixPrompt(spec, report) ==
  [code |-> spec.formal_spec.spec_code,
   issue_list |-> [k \in 1..Len(report.issues) |-> IssueItem(report.issues[k])],
   specific_fixes |->
     SpecificFixes(ClassifyIssues(report.issues, 1, Buckets(<<>>, <<>>, <<>>))),
   language_guidelines |-> "fstar"]

\* ------------------------------------------------------- get_error_context
ErrorContext(source_location, related_requirement, stack_trace, suggestion, severity) ==
  [source_location |-> source_location, related_requirement |-> related_requirement,
   stack_trace |-> stack_trace, suggestion |-> suggestion, severity |-> severity]

\* mutant: no suggestion is given for the empty error text
GetErrorContext_emptyUnexplained(error, spec) ==
  ErrorContext(None, None, <<>>,
    IF error = <<>> THEN None
    ELSE Some("Check the formal specification syntax and structure."), "Error")

GetErrorContext(error, spec) ==
  ErrorContext(None, None, <<>>,
    Some("Check the formal specification syntax and structure."), "Error")

\* --------------------------------------------------------- the repair loop
\* any(|i| matches!(i.severity, Error) && i.message.contains("type"))
HasTypeError(report) ==
  \E k \in 1..Len(report.issues) :
    report.issues[k].severity = "Error" /\ Contains(report.issues[k].message, "type")

\* mutant: the severity of the issue is not looked at
RevalidationDepth_anySeverity(report) ==
  IF \E k \in 1..Len(report.issues) : Contains(report.issues[k].message, "type")
  THEN "TypeCheck" ELSE "Basic"

\* let validation_depth = if .. { TypeCheck } else { Basic }
RevalidationDepth(report) == IF HasTypeError(report) THEN "TypeCheck" ELSE "Basic"

\* format!("Specification was automatically fixed after {} attempts", attempt)
FixedMessage(n) == Ln("Specification was automatically fixed after", n, {"attempts"})

\* format!("Automatic fixing was attempted {} times but issues remain", MAX_RETRIES)
ExhaustedMessage == Ln("Automatic fixing was attempted", MAX_RETRIES, {"times but issues remain"})

\* mutant: the attempts are counted from 0
SuccessReport_zeroBased(new_report, attempt_no, fixed) ==
  [new_report EXCEPT !.issues =
     Append(@, Issue("Info", FixedMessage(attempt_no - 1), None,
                     Some(fixed.spec_code)))]

\* mutant: the added issue has severity Error
SuccessReport_asError(new_report, attempt_no, fixed) ==
  [new_report EXCEPT !.issues =
     Append(@, Issue("Error", FixedMessage(attempt_no), None,
                     Some(fixed.spec_code)))]

SuccessReport(new_report, attempt_no, fixed) ==
  [new_report EXCEPT !.issues =
     Append(@, Issue("Info", FixedMessage(attempt_no), None, Some(fixed.spec_code)))]

\* mutant: the best-effort code is left out
FinalReport_noFix(report, spec) ==
  [report EXCEPT !.issues = Append(@, Issue("Warning", ExhaustedMessage, None, None))]

\* mutant: the issues of the last report are replaced, not extended
FinalReport_onlyWarning(report, spec) ==
  [report EXCEPT !.issues =
     <<Issue("Warning", ExhaustedMessage, None, Some(spec.spec_code))>>]

FinalReport(report, spec) ==
  [report EXCEPT !.issues =
     Append(@, Issue("Warning", ExhaustedMessage, None, Some(spec.spec_code)))]

\* the Specification built at the end of fix_specification
FixedSpecification(spec, response) ==
  \* the specifications of InputSpecs are written in F*
  Specification(spec.id + 1,
                ParseFormalSpecification(response, "FStarLang").spec_code)

\* fix_specification_with_retry as a function of the outcomes of its gateway
\* calls, in the order it makes them: iteration a of the loop with
\* current_spec = spec and current_report = report. NoResult: the outcomes
\* given do not reach a return.
RECURSIVE RetryLoop(_, _, _, _)
RetryLoop(a, spec, report, outcomes) ==
  LET calls == ~report.is_valid   \* fix_specification calls the gateway
  IN
  IF calls /\ outcomes = <<>> THEN NoResult
  ELSE IF calls /\ Head(outcomes).kind = "err"
  THEN Err(AxiomErrorFrom(Head(outcomes).error))
  ELSE
    LET fixed == IF calls THEN FixedSpecification(spec, Head(outcomes).text[1])
                 ELSE spec
        rest == IF calls THEN Tail(outcomes) ELSE outcomes
    IN
    IF rest = <<>> THEN NoResult
    ELSE IF Head(rest).kind = "err" THEN Err(AxiomErrorFrom(Head(rest).error))
    ELSE
      LET new_report == ValidateAt(RevalidationDepth(report), Head(rest).text[1])
      IN
      IF new_report.is_valid THEN Ok(SuccessReport(new_report, a, fixed))
      ELSE IF a < MAX_RETRIES THEN RetryLoop(a + 1, fixed, new_report, Tail(rest))
      ELSE Ok(FinalReport(new_report, fixed))

\* fix_specification_with_retry(spec, report) run on its own
RunAlone(spec, report, outcomes) ==
  IF report.is_valid THEN Ok(report) ELSE RetryLoop(1, spec, report, outcomes)

\* the locals of one future of fix_specification_with_retry
Locals(at, a, spec, report, fixed, depth, r) ==
  [pc |-> at, attempt |-> a, current_spec |-> spec, current_report |-> report,
   fixed_spec |-> fixed, validation_depth |-> depth, result |-> r]
NotCalled == Locals("idle", 0, None, None, None, "", NoResult)
ReturnedWith(r) == Locals("done", 0, None, None, None, "", r)

\* the locals at the first await of iteration a
AttemptLocals(a, spec, report) ==
  IF report.is_valid
  THEN Locals("revalidate", a, Some(spec), Some(report), Some(spec),
              RevalidationDepth(report), NoResult)
  ELSE Locals("fix_call", a, Some(spec), Some(report), None, "", NoResult)

\* mutant: the locals are kept in one place on the generator
Frame_onGenerator(j) == 1

\* where the locals of invocation j live: in its own future
Frame(j) == j

\* the requests handed to call_llm_api
ReviewRequest(depth, spec) ==
  [kind |-> "review", depth |-> depth, code |-> spec.spec_code, issues |-> <<>>]
FixRequest(spec, report) ==
  [kind |-> "fix", depth |-> "", code |-> spec.spec_code, issues |-> report.issues]

GenerationRequest(requirements, language) ==
  [kind |-> "generate", requirements |-> requirements, language |-> language]

\* ------------------------------------------------------------ input sets
IssueLines ==
  { Ln("Line ", 1, {"Error", "type"}),
    Ln("Line ", 2, {"Warning", "type"}),
    Ln("Location ", 0, {"Error", "Type"}) }

\* the sentence by which the model states a positive verdict at a depth
VerdictLine(depth) ==
  CASE depth = "Basic" -> Ln("", 0, {"The specification syntax is valid: True"})
    [] depth = "TypeCheck" -> Ln("", 0, {"the specification passes type checking: true"})
    [] OTHER -> Ln("", 0, {"the specification can be formally verified: true"})

SeqsUpTo(S, n) == UNION { [1..k -> S] : k \in 0..n }

\* the answers the model may give to the review prompt of a depth: the issue
\* lines, then the positive verdict sentence of that review or none
ReviewAnswers(depth) ==
  { Text(ls \o v, FALSE) :
      ls \in SeqsUpTo(IssueLines, MaxIssueLines),
      v \in {<<>>, <<VerdictLine(depth)>>} }

AllReviewAnswers == UNION { ReviewAnswers(d) : d \in Depths }

\* the answers the model may give to a repair prompt
FixAnswers ==
  { EmptyText,
    Text(<<Ln("", 0, {"let f x = x"})>>, FALSE),
    Text(<<Ln("FENCE_TAG", 0, {}), Ln("", 0, {"let g x = x"}), Ln("FENCE", 0, {})>>, FALSE) }

\* the lines of a review answer handed to one validate_* call: issue lines,
\* a suggestion, a line that is none of these, and verdict sentences of the
\* three reviews
ValidatorLines ==
  { Ln("Line ", 1, {"Error"}),
    Ln("Line ", 2, {"Warning"}),
    Ln("Line ", 3, {"Warning", "Error"}),
    Ln("Location ", 0, {}),
    Ln("Suggestion:", 0, {"add a semicolon"}),
    Ln("", 0, {"Error"}),
    Ln("", 0, {"The specification syntax is valid: True"}),
    Ln("", 0, {"is the specification syntax valid? true"}),
    Ln("", 0, {"the specification syntax is valid: false"}),
    Ln("", 0, {"the specification passes type checking: true"}),
    Ln("", 0, {"does the specification pass type checking? true"}),
    Ln("", 0, {"The Specification Can Be Formally Verified: TRUE"}),
    Ln("", 0, {"can the specification be formally verified as written? true"}) }

ValidatorAnswers ==
  { Text(ls, FALSE) : ls \in SeqsUpTo(ValidatorLines, MaxAnswerLines) }

\* the lines of a model answer handed to parse_formal_specification: fence
\* lines, a line of code, and import lines
ParserLines ==
  { Ln("FENCE", 0, {}),
    Ln("FENCE_TAG", 0, {}),
    Ln("", 0, {"let f x = x"}),
    Ln("open ", 0, {"Foo"}),
    Ln("open ", 0, {"Bar.Baz"}),
    Ln("  open ", 0, {"Foo;"}),
    Ln("open ", 0, {";"}),
    Ln("import ", 0, {"Foo, Bar"}),
    Ln("module ", 0, {"M"}) }

\* the empty answer, and every answer of some lines with or without a
\* newline after the last one
ParserAnswers ==
  { Text(ls, nl) : ls \in SeqsUpTo(ParserLines, MaxContentLines), nl \in BOOLEAN }
    \ { Text(<<>>, TRUE) }

Notations == {"FStarLang", "DafnyLang", "ACSL"}

\* the configurations and environments of a gateway call
ConfiguredKeys == {None, Some("config_key")}
ConfiguredEndpoints == {None, Some("https://configured.example/v1")}
Environments == SUBSET { EnvVarName(Providers[i]) : i \in 1..Len(Providers) }

\* the providers a caller of get_api_key may prefer
PreferredProviders == {"anthropic", "Anthropic", "azure", "llama"}

\* the answers of the provider to one request
HttpStatuses == {200, 401, 500}
AnswerTexts == {EmptyText, Text(<<Ln("", 0, {"let f x = x"})>>, FALSE)}
ContentItem(text) == [text |-> text, well_formed |-> TRUE]
HttpBodies ==
  { [kind |-> "unreadable"], [kind |-> "invalid_json"] }
  \cup { JsonBody(JsonArray(<<ContentItem(Some(t))>>), None, Absent, FALSE) :
           t \in AnswerTexts }
  \cup { JsonBody(JsonArray(<<>>), None, Absent, FALSE),
         JsonBody(JsonArray(<<ContentItem(None)>>), None, Absent, FALSE),
         JsonBody(JsonString(Text(<<Ln("", 0, {"let f x = x"})>>, FALSE)),
                  None, Absent, FALSE),
         JsonBody(Absent, Some(Text(<<Ln("", 0, {"let f x = x"})>>, FALSE)),
                  Absent, FALSE),
         JsonBody(Absent, None, Absent, FALSE) }
  \cup { JsonBody(Absent, None, JsonArray(<<ContentItem(Some(t))>>), TRUE) :
           t \in AnswerTexts }
  \cup { JsonBody(Absent, None, JsonArray(<<>>), TRUE),
         JsonBody(Absent, None, JsonArray(<<>>), FALSE),
         JsonBody(Absent, None, JsonArray(<<ContentItem(None)>>), TRUE) }

\* the templates of a configuration, the parameter mappings of a call
TemplateTexts ==
  { <<"Domain: ", "{{domain}}", "Requirements: ", "{{requirements}}">>,
    <<"{{requirements}}", " in ", "{{verification_language}}", " for ",
      "{{domain}}", " and ", "{{domain}}">> }
ParamKeys == {"domain", "requirements", "verification_language"}
ParamValues ==
  { <<"Cryptography">>,
    <<"use ", "{{domain}}", " here">>,
    <<"{{requirements}}">> }
ParamMappings == UNION { [ks -> ParamValues] : ks \in SUBSET ParamKeys }
TemplateNames == {"specification", "refinement"}

\* the orders in which a HashMap may hand out the entries of a mapping
VisitOrders(params) ==
  { order \in [1..Cardinality(DOMAIN params) -> DOMAIN params] :
      \A i, j \in DOMAIN order : i # j => order[i] # order[j] }

\* the templates of the generator: none, or the one of generate_specification
GeneratorTemplates ==
  { <<>>,
    "specification" :> <<"{{requirements}}", " in ", "{{verification_language}}",
                         " for ", "{{domain}}", " and ", "{{domain}}">> }

\* the inputs of generate / refine / translate / fix_specification
RequirementLists == { <<"r1", "r2">>, <<"r2", "r1">> }
TargetLanguages == {"FStarLang", "DafnyLang"}
GenerationAnswers ==
  { Text(<<Ln("FENCE_TAG", 0, {}), Ln("", 0, {"let f x = y"}), Ln("FENCE", 0, {})>>,
         FALSE),
    Text(<<Ln("FENCE_TAG", 0, {}), Ln("", 0, {"let f x = y"}),
           Ln("", 0, {"let g x = x"}), Ln("FENCE", 0, {})>>, FALSE),
    Text(<<Ln("", 0, {"let g x = x"})>>, FALSE) }
FixReports ==
  { Report(TRUE, <<>>, None),
    Report(FALSE, <<Issue("Error", Ln("Line ", 1, {"Error"}), Some(1), None)>>, None) }

\* a Specification the caller built itself: every field of the struct is
\* public (cli/commands/process.rs builds one with the score 0.95)
GivenSpecification ==
  SpecificationValue(<<"imported">>, <<"r1", "r2">>, <<"p1">>,
    ParseFormalSpecification(Text(<<Ln("", 0, {"let f x = y"})>>, TRUE), "FStarLang"),
    Metadata("FStar", "Cryptography", Fraction(19, 20), FALSE))

\* the specifications handed to the pipeline
InputSpecs == { Specification(0, Text(<<Ln("", 0, {"let f x = y"})>>, TRUE)) }

\* the requirements and the notation of the generation that is validated;
\* the repair loop parses its answers as F*
GenerationRequirements == { <<"r1", "r2">> }
GenerationLanguages == {"FStarLang"}
\* the specifications a generation can return, as the pipeline sees them
GeneratedSpecs ==
  { Specification(0, ParseFormalSpecification(a, l).spec_code) :
      a \in GenerationAnswers, l \in GenerationLanguages }

\* the messages of the issues handed to fix_specification
PromptMessages ==
  { <<"undefined", " ", "function", " ", "BACKTICK", "foo", "BACKTICK">>,
    <<"Undefined", " ", "function", " ", "BACKTICK", "foo", "BACKTICK">>,
    <<"undefined", " ", "function", " ", "BACKTICK", " ", "foo", " ", "BACKTICK", ":", " ", "type">>,
    <<"undefined", " ", "function", " ", "BACKTICK", "foo">>,
    <<"undefined", " ", "function", " ", "foo", ",", " ", "expected">>,
    <<"undefined", " ", "predicate", " ", "foo">>,
    <<"function", " ", "foo", " ", "is", " ", "undefined">>,
    <<"unknown", " ", "identifier", " ", "BACKTICK", "bar", "BACKTICK">>,
    <<"expected", " ", "type", " ", "nat">>,
    <<"Type", " ", "mismatch">>,
    <<"syntax", " ", "error">>,
    <<"unused", " ", "variable">> }
PromptReports ==
  { Report(valid, issues, None) :
      valid \in BOOLEAN,
      issues \in { [k \in 1..Len(m) |-> Issue("Error", m[k], None, None)] :
                    m \in SeqsUpTo(PromptMessages, MaxPromptIssues) } }

\* the specifications handed to fix_specification and get_error_context
HelperSpecifications ==
  {GivenSpecification}
    \cup { Generated(requirements, "Cryptography", language, response) :
             requirements \in RequirementLists, language \in TargetLanguages,
             response \in GenerationAnswers }
\* the error texts handed to get_error_context
ErrorTexts == PromptMessages \cup {<<>>}

\* the invocations that run concurrently, what they are called with, and
\* the answers the model gives them
Invocations == {1, 2}
ConcurrentReports ==
  { Report(TRUE, <<>>, None),
    Report(FALSE, <<Issue("Error", Ln("Line ", 1, {"Error", "type"}), Some(1), None)>>,
           None) }
ConcurrentFixAnswers ==
  { Text(<<Ln("FENCE_TAG", 0, {}), Ln("", 0, {"let g x = x"}), Ln("FENCE", 0, {})>>, FALSE) }
ConcurrentReviewAnswers ==
  { Text(<<VerdictLine(d)>>, FALSE) : d \in {"Basic", "TypeCheck"} }
    \cup { Text(<<Ln("Line ", 1, {"Error", "type"})>>, FALSE) }
ConcurrentErrors == {"NetworkError"}

\* the review answers of the runs whose termination is checked: the
\* verdict sentence of a review alone, and one issue line
TerminationReviewAnswers ==
  { Text(<<VerdictLine(d)>>, FALSE) : d \in Depths }
    \cup { Text(<<Ln("Line ", 1, {"Error", "type"})>>, FALSE),
           Text(<<Ln("Location ", 0, {"Error", "Type"})>>, FALSE) }

\* the reports a caller can hand to fix_specification_with_retry
InputReports == { ValidateSyntax(a) : a \in ReviewAnswers("Basic") }

\* ------------------------------------------------------------------ state
VARIABLES
  pc,                \* where the invocation is suspended
  entry,             \* the function the caller invoked
  requested_depth,   \* validate_specification: validation_depth
  validation_report, \* validate_specification: the initial report, once known
  current_spec,      \* fix_specification_with_retry: current_spec
  current_report,    \* fix_specification_with_retry: current_report
  attempt,           \* fix_specification_with_retry: the loop variable
  fixed_spec,        \* fix_specification_with_retry: fixed_spec of this attempt
  validation_depth,  \* fix_specification_with_retry: depth of this attempt
  pending,           \* gateway calls in flight
  fixResult,         \* what fix_specification_with_retry returned
  result,            \* what validate_specification returned
  loopInput,         \* history: the report the repair loop was called with
  gatewayLog,        \* history: the gateway calls issued, in order
  failedAt,          \* history: index in gatewayLog of the failed call, or 0
  verdictLog,        \* history: is_valid of every re-validation, in order
  lastAnswer,        \* history: the last review answer received
  lastReview,        \* history: the report the Validator made of it
  lastFixed,         \* history: the specification built by the last repair
  generated,         \* what generate_specification returned to the caller
  generationLog,     \* history: the gateway calls issued by generate_specification
  generationAnswer   \* history: the answer to the generation prompt

\* one call of a validate_* function on a review answer
VARIABLES
  review_answer,     \* validate_*: response
  review_depth,      \* the validate_* function that is called
  review_report      \* the ValidationReport it returns, once it has

\* one call of parse_formal_specification
VARIABLES
  model_answer,      \* parse_formal_specification: content
  notation,          \* parse_formal_specification: verification_language
  formal_spec        \* the FormalSpecification it returns, once it has

\* one call of get_api_key or of call_llm_api
VARIABLES
  gw_pc,              \* where the call is
  cfg_api_key,        \* config.llm_api.api_key
  cfg_api_endpoint,   \* config.llm_api.api_endpoint
  env_keys,           \* the environment variables that hold a key
  preferred_provider, \* get_api_key: preferred_provider
  key_result,         \* what get_api_key returned
  http_requests,      \* the requests handed to http_client, in order
  http_response,      \* history: what came back for the request
  gw_result           \* what call_llm_api returned

\* calls of render_template
VARIABLES
  prompt_templates,   \* config.prompt_templates
  template_name,      \* render_template: template_name
  render_params,      \* render_template: params
  renders             \* what the calls returned, in order

\* one call of fix_specification, with the prompt it builds
VARIABLES
  fp_pc,              \* "idle", "awaiting" the gateway, "returned"
  fp_spec,            \* fix_specification: spec
  fp_report,          \* fix_specification: report
  fp_prompt,          \* the prompt handed to call_llm_api, once built
  fp_result           \* what the call returned

\* one call of get_error_context
VARIABLES
  ec_error,           \* get_error_context: _error
  ec_spec,            \* get_error_context: _spec
  ec_context          \* the ErrorContext it returns, once it has

\* one call of the synchronous facade (main.rs)
VARIABLES
  fa_pc,              \* the caller: "idle", "joining" in handle.join(), "returned"
  fa_call,            \* the facade function called and its arguments
  wk_pc,              \* the worker thread: "none", "spawned", "running",
                      \* "finished", "panicked"
  wk_result,          \* the value of the worker's closure, once it has one
  fa_returns          \* history: the values the facade returned to its caller

\* invocations of fix_specification_with_retry running concurrently on one
\* generator
VARIABLES
  co,                 \* per invocation: the locals of its future
  co_input,           \* per invocation: the arguments it was called with
  co_script           \* history, per invocation: the gateway outcomes it received

\* calls of generate / refine / translate / fix_specification
VARIABLES
  specs,              \* the Specification values made so far, with their origin
  lc_pc,              \* "idle", or "awaiting" the gateway
  lc_call,            \* the call that is under way
  lc_result,          \* what the last call returned
  lc_templates,       \* config.prompt_templates of the generator
  lc_unprompted       \* history: the function that returned last without
                      \* handing a prompt to call_llm_api; "" once a call
                      \* has handed one over

pipelineVars == <<pc, entry, requested_depth, validation_report, current_spec,
                  current_report, attempt, fixed_spec, validation_depth, pending,
                  fixResult, result, loopInput, gatewayLog, failedAt, verdictLog,
                  lastAnswer, lastReview, lastFixed, generated, generationLog,
                  generationAnswer>>
\* what validate_specification and the repair loop leave alone
generationVars == <<generated, generationLog, generationAnswer>>
validatorVars == <<review_answer, review_depth, review_report>>
parserVars == <<model_answer, notation, formal_spec>>
gatewayVars == <<gw_pc, cfg_api_key, cfg_api_endpoint, env_keys, preferred_provider,
                 key_result, http_requests, http_response, gw_result>>

rendererVars == <<prompt_templates, template_name, render_params, renders>>
lifecycleVars == <<specs, lc_pc, lc_call, lc_result, lc_templates, lc_unprompted>>
facadeVars == <<fa_pc, fa_call, wk_pc, wk_result, fa_returns>>
concurrencyVars == <<co, co_input, co_script>>
promptVars == <<fp_pc, fp_spec, fp_report, fp_prompt, fp_result>>
contextVars == <<ec_error, ec_spec, ec_context>>

\* what the actions of the pipeline leave alone
componentVars == <<validatorVars, parserVars, gatewayVars, rendererVars,
                   lifecycleVars, facadeVars, concurrencyVars, promptVars, contextVars>>
\* what the calls of the other components leave alone
notValidatorVars == <<pipelineVars, parserVars, gatewayVars, rendererVars,
  lifecycleVars, facadeVars, concurrencyVars, promptVars, contextVars>>
notParserVars == <<pipelineVars, validatorVars, gatewayVars, rendererVars,
  lifecycleVars, facadeVars, concurrencyVars, promptVars, contextVars>>
notGatewayVars == <<pipelineVars, validatorVars, parserVars, rendererVars,
  lifecycleVars, facadeVars, concurrencyVars, promptVars, contextVars>>
notRendererVars == <<pipelineVars, validatorVars, parserVars, gatewayVars,
  lifecycleVars, facadeVars, concurrencyVars, promptVars, contextVars>>
notLifecycleVars == <<pipelineVars, validatorVars, parserVars, gatewayVars,
  rendererVars, facadeVars, concurrencyVars, promptVars, contextVars>>
notFacadeVars == <<pipelineVars, validatorVars, parserVars, gatewayVars,
  rendererVars, lifecycleVars, concurrencyVars, promptVars, contextVars>>
notConcurrencyVars == <<pipelineVars, validatorVars, parserVars, gatewayVars,
  rendererVars, lifecycleVars, facadeVars, promptVars, contextVars>>
notPromptVars == <<pipelineVars, validatorVars, parserVars, gatewayVars,
  rendererVars, lifecycleVars, facadeVars, concurrencyVars, contextVars>>
notContextVars == <<pipelineVars, validatorVars, parserVars, gatewayVars,
  rendererVars, lifecycleVars, facadeVars, concurrencyVars, promptVars>>

vars == <<pipelineVars, validatorVars, parserVars, gatewayVars, rendererVars,
          lifecycleVars, facadeVars, concurrencyVars, promptVars, contextVars>>

\* no fix_specification call is under way
PromptIdle ==
  /\ fp_pc = "idle"
  /\ fp_spec = None
  /\ fp_report = None
  /\ fp_prompt = None
  /\ fp_result = None

\* no get_error_context call is under way
ContextIdle ==
  /\ ec_error = None
  /\ ec_spec = None
  /\ ec_context = None

\* no call of the synchronous facade is under way
FacadeIdle ==
  /\ fa_pc = "idle"
  /\ fa_call = NoFacadeCall
  /\ wk_pc = "none"
  /\ wk_result = None
  /\ fa_returns = <<>>

\* no concurrent invocations are under way
ConcurrencyIdle ==
  /\ co = <<>>
  /\ co_input = <<>>
  /\ co_script = <<>>

\* no generate / refine / translate / fix call is under way
LifecycleIdle ==
  /\ specs = <<>>
  /\ lc_pc = "idle"
  /\ lc_call = NoCall
  /\ lc_result = NoReturn
  /\ lc_templates = <<>>
  /\ lc_unprompted = ""

\* no render_template call is under way
RendererIdle ==
  /\ prompt_templates = <<>>
  /\ template_name = ""
  /\ render_params = <<>>
  /\ renders = <<>>

\* no gateway call is under way
GatewayIdle ==
  /\ gw_pc = "idle"
  /\ cfg_api_key = None
  /\ cfg_api_endpoint = None
  /\ env_keys = {}
  /\ preferred_provider = "anthropic"
  /\ key_result = NoKey
  /\ http_requests = <<>>
  /\ http_response = NoResponse
  /\ gw_result = GwNone

\* no validate_* call is under way
ValidatorIdle ==
  /\ review_answer = EmptyText
  /\ review_depth = "Basic"
  /\ review_report = None

\* no parse_formal_specification call is under way
ParserIdle ==
  /\ model_answer = EmptyText
  /\ notation = "FStarLang"
  /\ formal_spec = None

PipelineInit ==
  /\ pc = "idle"
  /\ entry = "none"
  /\ requested_depth = "Basic"
  /\ validation_report = None
  /\ current_spec = None
  /\ current_report = None
  /\ attempt = 0
  /\ fixed_spec = None
  /\ validation_depth = ""
  /\ pending = <<>>
  /\ fixResult = NoResult
  /\ result = NoResult
  /\ loopInput = None
  /\ gatewayLog = <<>>
  /\ failedAt = 0
  /\ verdictLog = <<>>
  /\ lastAnswer = None
  /\ lastReview = None
  /\ lastFixed = None
  /\ generated = None
  /\ generationLog = <<>>
  /\ generationAnswer = None

Init ==
  /\ PipelineInit
  /\ ValidatorIdle
  /\ ParserIdle
  /\ GatewayIdle
  /\ RendererIdle
  /\ LifecycleIdle
  /\ FacadeIdle
  /\ PromptIdle
  /\ ContextIdle
  /\ ConcurrencyIdle

\* the frame of fix_specification_with_retry is gone once it returns
DropLocals ==
  /\ current_spec' = None
  /\ current_report' = None
  /\ attempt' = 0
  /\ fixed_spec' = None
  /\ validation_depth' = ""

\* fix_specification_with_retry returns r to its caller; validate_specification
\* (lines 1092-1108) turns it into its own return value
ReturnFromLoop(caller, r) ==
  /\ pc' = "done"
  /\ pending' = <<>>
  /\ DropLocals
  /\ fixResult' = r
  /\ result' = IF caller = "validate_specification"
               THEN IF r.kind = "ok" THEN r ELSE Ok(validation_report[1])
               ELSE NoResult

\* mutant: the repair call is sent without waiting for the call in flight
StartAttempt_noAwait(a, spec, report) ==
  /\ attempt' = a
  /\ current_spec' = Some(spec)
  /\ current_report' = Some(report)
  /\ fixed_spec' = None
  /\ validation_depth' = ""
  /\ pending' = Append(pending, FixRequest(spec, report))
  /\ gatewayLog' = Append(gatewayLog, "fix")
  /\ lastFixed' = lastFixed
  /\ pc' = "fix_call"
  /\ UNCHANGED <<fixResult, result>>

\* one iteration of `for attempt in 1..=MAX_RETRIES` up to its first await:
\* fix_specification builds the prompt and calls the gateway
StartAttempt(a, spec, report) ==
  /\ attempt' = a
  /\ current_spec' = Some(spec)
  /\ current_report' = Some(report)
  /\ IF report.is_valid
     THEN \* fix_specification returns spec.clone() without a gateway call
          /\ fixed_spec' = Some(spec)
          /\ validation_depth' = RevalidationDepth(report)
          /\ pending' = <<ReviewRequest(RevalidationDepth(report), spec)>>
          /\ gatewayLog' = Append(gatewayLog, "review")
          /\ lastFixed' = Some(spec)
          /\ pc' = "revalidate"
     ELSE /\ fixed_spec' = None
          /\ validation_depth' = ""
          /\ pending' = <<FixRequest(spec, report)>>
          /\ gatewayLog' = Append(gatewayLog, "fix")
          /\ lastFixed' = lastFixed
          /\ pc' = "fix_call"
  /\ UNCHANGED <<fixResult, result>>

\* mutant: the is_valid guard is missing
EnterLoop_noGuard(caller, spec, report) == StartAttempt(1, spec, report)

\* the body of fix_specification_with_retry up to its first await
EnterLoop(caller, spec, report) ==
  IF report.is_valid
  THEN /\ ReturnFromLoop(caller, Ok(report))
       /\ UNCHANGED <<gatewayLog, lastFixed>>
  ELSE StartAttempt(1, spec, report)

\* ---------------------------------------------------------------- actions
\* generate_specification(requirements, domain, options) is called by the
\* caller that validates the result next (cli/commands/process.rs): the
\* generation prompt goes to the gateway
GenerateForValidation(requirements, language) ==
  /\ UNCHANGED componentVars
  /\ pc = "idle"
  /\ pc' = "generation"
  /\ entry' = "generate_specification"
  /\ pending' = <<GenerationRequest(requirements, language)>>
  /\ generationLog' = Append(generationLog, "generate")
  /\ UNCHANGED <<requested_depth, validation_report, current_spec, current_report,
                 attempt, fixed_spec, validation_depth, fixResult, result,
                 loopInput, gatewayLog, failedAt, verdictLog, lastAnswer,
                 lastReview, lastFixed, generated, generationAnswer>>

\* the generation prompt is answered: the answer is parsed and the
\* Specification returned
GenerationReturns(response) ==
  /\ UNCHANGED componentVars
  /\ pc = "generation"
  /\ pc' = "generated"
  /\ pending' = <<>>
  /\ generationAnswer' = Some(response)
  /\ generated' = Some(Generated(pending[1].requirements, "Cryptography",
                                 pending[1].language, response))
  /\ UNCHANGED <<entry, requested_depth, validation_report, current_spec,
                 current_report, attempt, fixed_spec, validation_depth,
                 fixResult, result, loopInput, gatewayLog, failedAt, verdictLog,
                 lastAnswer, lastReview, lastFixed, generationLog>>

\* the generation call fails: `?` returns the error, nothing is validated
GenerationFails(e) ==
  /\ UNCHANGED componentVars
  /\ pc = "generation"
  /\ pc' = "done"
  /\ pending' = <<>>
  /\ result' = Err(AxiomErrorFrom(e))
  /\ UNCHANGED <<entry, requested_depth, validation_report, current_spec,
                 current_report, attempt, fixed_spec, validation_depth,
                 fixResult, loopInput, gatewayLog, failedAt, verdictLog,
                 lastAnswer, lastReview, lastFixed, generated, generationLog,
                 generationAnswer>>

\* validate_specification(spec, depth) is called: the review prompt of the
\* requested depth goes to the gateway
ValidateSpecification(spec, depth) ==
  /\ UNCHANGED <<componentVars, generationVars>>
  /\ IF pc = "generated"
     THEN spec = Specification(0, generated[1].formal_spec.spec_code)
     ELSE pc = "idle" /\ spec \in InputSpecs
  /\ pc' = "initial_review"
  /\ entry' = "validate_specification"
  /\ requested_depth' = depth
  /\ pending' = <<ReviewRequest(depth, spec)>>
  /\ gatewayLog' = Append(gatewayLog, "initial_review")
  /\ current_spec' = Some(spec)
  /\ UNCHANGED <<validation_report, current_report, attempt, fixed_spec,
                 validation_depth, fixResult, result, loopInput, failedAt,
                 verdictLog, lastAnswer, lastReview, lastFixed>>

\* the initial review is answered
InitialReviewReturns(response) ==
  /\ UNCHANGED <<componentVars, generationVars>>
  /\ pc = "initial_review"
  /\ response \in ReviewAnswers(pending[1].depth)
  /\ LET report == ValidateAt(requested_depth, response) IN
       /\ lastAnswer' = Some(response)
       /\ lastReview' = Some(report)
       /\ IF report.is_valid
          THEN /\ validation_report' = Some(report)
               /\ result' = Ok(report)
               /\ pc' = "done"
               /\ pending' = <<>>
               /\ DropLocals
               /\ UNCHANGED <<fixResult, loopInput, gatewayLog, lastFixed>>
          ELSE \* fix_specification_with_retry(spec, &validation_report)
               /\ validation_report' = Some(report)
               /\ loopInput' = Some(report)
               /\ EnterLoop(entry, current_spec[1], report)
  /\ UNCHANGED <<entry, requested_depth, failedAt, verdictLog>>

\* the initial review call fails: `?` returns the error
InitialReviewFails(e) ==
  /\ UNCHANGED <<componentVars, generationVars>>
  /\ pc = "initial_review"
  /\ pc' = "done"
  /\ pending' = <<>>
  /\ result' = Err(AxiomErrorFrom(e))
  /\ failedAt' = Len(gatewayLog)
  /\ DropLocals
  /\ UNCHANGED <<entry, requested_depth, validation_report, fixResult,
                 loopInput, gatewayLog, verdictLog, lastAnswer, lastReview,
                 lastFixed>>

\* fix_specification_with_retry(spec, report) is called on its own
FixSpecificationWithRetry(spec, report) ==
  /\ UNCHANGED <<componentVars, generationVars>>
  /\ pc = "idle"
  /\ entry' = "fix_specification_with_retry"
  /\ loopInput' = Some(report)
  /\ EnterLoop("fix_specification_with_retry", spec, report)
  /\ UNCHANGED <<requested_depth, validation_report, failedAt, verdictLog,
                 lastAnswer, lastReview>>

\* the repair call is answered: fix_specification parses the answer and
\* returns, the loop picks the depth and sends the review prompt
FixReturns(response) ==
  /\ UNCHANGED <<componentVars, generationVars>>
  /\ pc = "fix_call"
  /\ LET fixed == FixedSpecification(current_spec[1], response)
         depth == RevalidationDepth(current_report[1]) IN
       /\ fixed_spec' = Some(fixed)
       /\ lastFixed' = Some(fixed)
       /\ validation_depth' = depth
       /\ pending' = <<ReviewRequest(depth, fixed)>>
  /\ gatewayLog' = Append(gatewayLog, "review")
  /\ pc' = "revalidate"
  /\ UNCHANGED <<entry, requested_depth, validation_report, current_spec,
                 current_report, attempt, fixResult, result, loopInput,
                 failedAt, verdictLog, lastAnswer, lastReview>>

\* mutant: a failed repair call is sent again
FixFails_retry(e) ==
  /\ UNCHANGED <<componentVars, generationVars>>
  /\ pc = "fix_call"
  /\ failedAt' = Len(gatewayLog)
  /\ gatewayLog' = Append(gatewayLog, "fix")
  /\ UNCHANGED <<pc, pending, entry, requested_depth, validation_report,
                 current_spec, current_report, attempt, fixed_spec,
                 validation_depth, fixResult, result, loopInput, verdictLog,
                 lastAnswer, lastReview, lastFixed>>

\* the repair call fails: `?` in fix_specification and in the loop
FixFails(e) ==
  /\ UNCHANGED <<componentVars, generationVars>>
  /\ pc = "fix_call"
  /\ ReturnFromLoop(entry, Err(AxiomErrorFrom(e)))
  /\ failedAt' = Len(gatewayLog)
  /\ UNCHANGED <<entry, requested_depth, validation_report, loopInput,
                 gatewayLog, verdictLog, lastAnswer, lastReview, lastFixed>>

\* mutant: the loop runs once more than MAX_RETRIES times
RevalidationReturns_oneMoreAttempt(response) ==
  /\ UNCHANGED <<componentVars, generationVars>>
  /\ pc = "revalidate"
  /\ response \in ReviewAnswers(pending[1].depth)
  /\ LET new_report == ValidateAt(validation_depth, response) IN
       /\ verdictLog' = Append(verdictLog, new_report.is_valid)
       /\ lastAnswer' = Some(response)
       /\ lastReview' = Some(new_report)
       /\ IF new_report.is_valid
          THEN /\ ReturnFromLoop(entry,
                    Ok(SuccessReport(new_report, attempt, fixed_spec[1])))
               /\ UNCHANGED <<gatewayLog, lastFixed>>
          ELSE IF attempt <= MAX_RETRIES
          THEN StartAttempt(attempt + 1, fixed_spec[1], new_report)
          ELSE /\ ReturnFromLoop(entry, Ok(FinalReport(new_report, fixed_spec[1])))
               /\ UNCHANGED <<gatewayLog, lastFixed>>
  /\ UNCHANGED <<entry, requested_depth, validation_report, loopInput,
                 failedAt>>

\* mutant: a valid re-validation does not end the loop early
RevalidationReturns_noEarlyExit(response) ==
  /\ UNCHANGED <<componentVars, generationVars>>
  /\ pc = "revalidate"
  /\ response \in ReviewAnswers(pending[1].depth)
  /\ LET new_report == ValidateAt(validation_depth, response) IN
       /\ verdictLog' = Append(verdictLog, new_report.is_valid)
       /\ lastAnswer' = Some(response)
       /\ lastReview' = Some(new_report)
       /\ IF attempt < MAX_RETRIES
          THEN StartAttempt(attempt + 1, fixed_spec[1], new_report)
          ELSE /\ ReturnFromLoop(entry,
                    IF new_report.is_valid
                    THEN Ok(SuccessReport(new_report, attempt, fixed_spec[1]))
                    ELSE Ok(FinalReport(new_report, fixed_spec[1])))
               /\ UNCHANGED <<gatewayLog, lastFixed>>
  /\ UNCHANGED <<entry, requested_depth, validation_report, loopInput,
                 failedAt>>

\* the re-validation of this attempt is answered
RevalidationReturns(response) ==
  /\ UNCHANGED <<componentVars, generationVars>>
  /\ pc = "revalidate"
  /\ response \in ReviewAnswers(pending[1].depth)
  /\ LET new_report == ValidateAt(validation_depth, response) IN
       /\ verdictLog' = Append(verdictLog, new_report.is_valid)
       /\ lastAnswer' = Some(response)
       /\ lastReview' = Some(new_report)
       /\ IF new_report.is_valid
          THEN /\ ReturnFromLoop(entry,
                    Ok(SuccessReport(new_report, attempt, fixed_spec[1])))
               /\ UNCHANGED <<gatewayLog, lastFixed>>
          ELSE IF attempt < MAX_RETRIES
          THEN StartAttempt(attempt + 1, fixed_spec[1], new_report)
          ELSE \* current_spec = fixed_spec and current_report = new_report
               \* when the loop is left
               /\ ReturnFromLoop(entry, Ok(FinalReport(new_report, fixed_spec[1])))
               /\ UNCHANGED <<gatewayLog, lastFixed>>
  /\ UNCHANGED <<entry, requested_depth, validation_report, loopInput,
                 failedAt>>

\* the re-validation call fails: `?` in the loop
RevalidationFails(e) ==
  /\ UNCHANGED <<componentVars, generationVars>>
  /\ pc = "revalidate"
  /\ ReturnFromLoop(entry, Err(AxiomErrorFrom(e)))
  /\ failedAt' = Len(gatewayLog)
  /\ UNCHANGED <<entry, requested_depth, validation_report, loopInput,
                 gatewayLog, verdictLog, lastAnswer, lastReview, lastFixed>>

Next ==
  \/ \E requirements \in GenerationRequirements, language \in GenerationLanguages :
       GenerateForValidation(requirements, language)
  \/ \E response \in GenerationAnswers : GenerationReturns(response)
  \/ \E e \in GatewayErrors : GenerationFails(e)
  \/ \E spec \in InputSpecs \cup GeneratedSpecs, depth \in Depths :
       ValidateSpecification(spec, depth)
  \/ \E response \in AllReviewAnswers : InitialReviewReturns(response)
  \/ \E e \in GatewayErrors : InitialReviewFails(e)
  \/ \E spec \in InputSpecs, report \in InputReports :
       FixSpecificationWithRetry(spec, report)
  \/ \E response \in FixAnswers : FixReturns(response)
  \/ \E e \in GatewayErrors : FixFails(e)
  \/ \E response \in AllReviewAnswers : RevalidationReturns(response)
  \/ \E e \in GatewayErrors : RevalidationFails(e)

Spec == Init /\ [][Next]_vars

\* ------------------------------------- the pipeline when every call returns
\* a gateway call in flight returns: with an answer or with an error
GatewayCallReturns ==
  \/ \E response \in TerminationReviewAnswers : InitialReviewReturns(response)
  \/ \E e \in ConcurrentErrors : InitialReviewFails(e)
  \/ \E response \in ConcurrentFixAnswers : FixReturns(response)
  \/ \E e \in ConcurrentErrors : FixFails(e)
  \/ \E response \in TerminationReviewAnswers : RevalidationReturns(response)
  \/ \E e \in ConcurrentErrors : RevalidationFails(e)

TerminationNext ==
  \/ \E spec \in InputSpecs, depth \in Depths : ValidateSpecification(spec, depth)
  \/ \E spec \in InputSpecs, report \in ConcurrentReports :
       FixSpecificationWithRetry(spec, report)
  \/ \E response \in TerminationReviewAnswers : InitialReviewReturns(response)
  \/ \E e \in ConcurrentErrors : InitialReviewFails(e)
  \/ \E response \in ConcurrentFixAnswers : FixReturns(response)
  \/ \E e \in ConcurrentErrors : FixFails(e)
  \/ \E response \in TerminationReviewAnswers : RevalidationReturns(response)
  \/ \E e \in ConcurrentErrors : RevalidationFails(e)

\* the futures are driven to completion by the runtime (block_on), and the
\* gateway call in flight returns
TerminationSpec == Init /\ [][TerminationNext]_vars /\ WF_vars(GatewayCallReturns)

\* ------------------------------------------- the Validator, one call at a time
ValidatorInit ==
  /\ PipelineInit
  /\ LifecycleIdle
  /\ FacadeIdle
  /\ PromptIdle
  /\ ContextIdle
  /\ ConcurrencyIdle
  /\ RendererIdle
  /\ ParserIdle
  /\ GatewayIdle
  /\ review_answer \in ValidatorAnswers
  /\ review_depth \in Depths
  /\ review_report = None

ValidateSyntaxCall ==
  /\ review_depth = "Basic"
  /\ review_report = None
  /\ review_report' = Some(ValidateSyntax(review_answer))
  /\ UNCHANGED <<review_answer, review_depth, notValidatorVars>>

ValidateTypeCheckingCall ==
  /\ review_depth = "TypeCheck"
  /\ review_report = None
  /\ review_report' = Some(ValidateTypeChecking(review_answer))
  /\ UNCHANGED <<review_answer, review_depth, notValidatorVars>>

ValidateFormalVerificationCall ==
  /\ review_depth = "FormalVerification"
  /\ review_report = None
  /\ review_report' = Some(ValidateFormalVerification(review_answer))
  /\ UNCHANGED <<review_answer, review_depth, notValidatorVars>>

ValidatorNext ==
  \/ ValidateSyntaxCall
  \/ ValidateTypeCheckingCall
  \/ ValidateFormalVerificationCall

ValidatorSpec == ValidatorInit /\ [][ValidatorNext]_vars

\* ---------------------------------------------- the parser, one call at a time
ParserInit ==
  /\ PipelineInit
  /\ LifecycleIdle
  /\ FacadeIdle
  /\ PromptIdle
  /\ ContextIdle
  /\ ConcurrencyIdle
  /\ RendererIdle
  /\ ValidatorIdle
  /\ GatewayIdle
  /\ model_answer \in ParserAnswers
  /\ notation \in Notations
  /\ formal_spec = None

ParseFormalSpecificationCall ==
  /\ formal_spec = None
  /\ formal_spec' = Some(ParseFormalSpecification(model_answer, notation))
  /\ UNCHANGED <<model_answer, notation, notParserVars>>

ParserNext == ParseFormalSpecificationCall

ParserSpec == ParserInit /\ [][ParserNext]_vars

\* --------------------------------------------- the gateway, one call at a time
GatewayInit ==
  /\ PipelineInit
  /\ LifecycleIdle
  /\ FacadeIdle
  /\ PromptIdle
  /\ ContextIdle
  /\ ConcurrencyIdle
  /\ RendererIdle
  /\ ValidatorIdle
  /\ ParserIdle
  /\ gw_pc = "idle"
  /\ cfg_api_key \in ConfiguredKeys
  /\ cfg_api_endpoint \in ConfiguredEndpoints
  /\ env_keys \in Environments
  /\ preferred_provider = "anthropic"
  /\ key_result = NoKey
  /\ http_requests = <<>>
  /\ http_response = NoResponse
  /\ gw_result = GwNone

gatewayConfig == <<cfg_api_key, cfg_api_endpoint, env_keys>>

\* config.get_api_key(preferred) is called on its own
GetApiKeyCall(preferred) ==
  /\ gw_pc = "idle"
  /\ gw_pc' = "key_done"
  /\ preferred_provider' = preferred
  /\ key_result' = GetApiKey(cfg_api_key, env_keys, preferred)
  /\ UNCHANGED <<gatewayConfig, http_requests, http_response, gw_result,
                 notGatewayVars>>

\* mutant: without a key the request is sent all the same
CallLlmApi_noKeyCheck ==
  /\ gw_pc = "idle"
  /\ preferred_provider' = "anthropic"
  /\ LET key == GetApiKey(cfg_api_key, env_keys, "anthropic")
         provider == IF key.kind = "err" THEN "anthropic" ELSE key.provider
         api_endpoint == ApiEndpoint(provider, cfg_api_endpoint) IN
       /\ key_result' = key
       /\ IF api_endpoint = None
          THEN /\ gw_result' = GwPanic
               /\ gw_pc' = "done"
               /\ UNCHANGED http_requests
          ELSE /\ http_requests' =
                    Append(http_requests,
                           HttpRequest(provider, api_endpoint[1], key.key))
               /\ gw_pc' = "sending"
               /\ UNCHANGED gw_result
  /\ UNCHANGED <<gatewayConfig, http_response, notGatewayVars>>

\* call_llm_api(prompt) up to request_builder.send()
CallLlmApi ==
  /\ gw_pc = "idle"
  /\ preferred_provider' = "anthropic"
  /\ LET key == GetApiKey(cfg_api_key, env_keys, "anthropic")
         api_endpoint == ApiEndpoint(key.provider, cfg_api_endpoint) IN
       /\ key_result' = key
       /\ IF key.kind = "err"
          THEN /\ gw_result' = GwErr("ApiError", "API key error")
               /\ gw_pc' = "done"
               /\ UNCHANGED http_requests
          ELSE IF api_endpoint = None
          THEN \* panic!("Azure OpenAI endpoint must be configured")
               /\ gw_result' = GwPanic
               /\ gw_pc' = "done"
               /\ UNCHANGED http_requests
          ELSE /\ http_requests' =
                    Append(http_requests,
                           HttpRequest(key.provider, api_endpoint[1], key.key))
               /\ gw_pc' = "sending"
               /\ UNCHANGED gw_result
  /\ UNCHANGED <<gatewayConfig, http_response, notGatewayVars>>

\* mutant: after a failure of send() the request is sent again
SendFails_retry ==
  /\ gw_pc = "sending"
  /\ http_response' = SendFailure
  /\ http_requests' = Append(http_requests, http_requests[Len(http_requests)])
  /\ UNCHANGED <<gw_pc, gw_result, gatewayConfig, preferred_provider, key_result,
                 notGatewayVars>>

\* send() fails
SendFails ==
  /\ gw_pc = "sending"
  /\ gw_pc' = "done"
  /\ http_response' = SendFailure
  /\ gw_result' = GwErr("NetworkError", "")
  /\ UNCHANGED <<gatewayConfig, preferred_provider, key_result, http_requests,
                 notGatewayVars>>

\* the response arrives and its body is read
ResponseArrives(status, body) ==
  /\ gw_pc = "sending"
  /\ gw_pc' = "done"
  /\ http_response' = HttpResponse(status, body)
  /\ gw_result' =
       IF ~(status >= 200 /\ status <= 299)
       THEN GwErr("HttpError", HttpError(status, body))
       ELSE IF key_result.provider = "anthropic" THEN AnthropicContent(body)
       ELSE OpenAiContent(body)
  /\ UNCHANGED <<gatewayConfig, preferred_provider, key_result, http_requests,
                 notGatewayVars>>

GatewayNext ==
  \/ \E preferred \in PreferredProviders : GetApiKeyCall(preferred)
  \/ CallLlmApi
  \/ SendFails
  \/ \E status \in HttpStatuses, body \in HttpBodies : ResponseArrives(status, body)

GatewaySpec == GatewayInit /\ [][GatewayNext]_vars

\* ----------------------------------------------------- the template renderer
RendererInit ==
  /\ PipelineInit
  /\ LifecycleIdle
  /\ FacadeIdle
  /\ PromptIdle
  /\ ContextIdle
  /\ ConcurrencyIdle
  /\ ValidatorIdle
  /\ ParserIdle
  /\ GatewayIdle
  /\ prompt_templates \in { ("specification" :> t) : t \in TemplateTexts }
  /\ template_name \in TemplateNames
  /\ render_params \in ParamMappings
  /\ renders = <<>>

\* render_template(template_name, &params) is called and returns
RenderTemplate(order) ==
  /\ Len(renders) < MaxRenders
  /\ order \in VisitOrders(render_params)
  /\ renders' = Append(renders,
                   RenderTemplateIn(prompt_templates, template_name,
                                    render_params, order))
  /\ UNCHANGED <<prompt_templates, template_name, render_params, notRendererVars>>

RendererNext ==
  \E order \in UNION { VisitOrders(m) : m \in ParamMappings } : RenderTemplate(order)

RendererSpec == RendererInit /\ [][RendererNext]_vars

\* ------------------------------ generate / refine / translate / fix, one by one
LifecycleInit ==
  /\ PipelineInit
  /\ ValidatorIdle
  /\ ParserIdle
  /\ GatewayIdle
  /\ RendererIdle
  /\ FacadeIdle
  /\ PromptIdle
  /\ ContextIdle
  /\ ConcurrencyIdle
  /\ specs \in { <<>>, <<Made(GivenSpecification, Call("given", 0, <<>>, "", FALSE))>> }
  /\ lc_pc = "idle"
  /\ lc_call = NoCall
  /\ lc_result = NoReturn
  /\ lc_templates \in GeneratorTemplates
  /\ lc_unprompted = ""

\* the call sends its prompt to the gateway
AwaitGateway(call) ==
  /\ lc_pc' = "awaiting"
  /\ lc_call' = call
  /\ lc_result' = NoReturn
  /\ lc_unprompted' = ""
  /\ UNCHANGED specs

\* the call returns value
ReturnValue(value, call) ==
  /\ specs' = Append(specs, Made(value, call))
  /\ lc_result' = Returned(Len(specs) + 1)
  /\ lc_pc' = "idle"
  /\ lc_call' = NoCall

\* let mut params = HashMap::new(); params.insert(..) for the placeholders
\* of the model
GenerationParams(requirements, language) ==
  [k \in ParamKeys |->
     CASE k = "domain" -> <<"Cryptography">>
       [] k = "requirements" -> requirements
       [] OTHER -> <<language>>]

\* generate_specification(requirements, domain, options) up to the gateway
\* call: the prompt is rendered, and `?` returns the error of a failed
\* rendering
GenerateSpecification(requirements, language) ==
  /\ lc_pc = "idle"
  /\ Len(specs) < MaxSpecs
  /\ LET params == GenerationParams(requirements, language)
         \* what render_template can return, whatever the order of the HashMap
         renderings == { RenderTemplateIn(lc_templates, "specification", params, order) :
                           order \in VisitOrders(params) }
     IN \E prompt \in renderings :
          IF prompt.kind = "ok"
          THEN AwaitGateway(Call("generate", 0, requirements, language, FALSE))
          ELSE /\ lc_result' = Failed(AxiomErrorFrom(prompt.error))
               /\ lc_unprompted' = "generate"
               /\ UNCHANGED <<specs, lc_pc, lc_call>>
  /\ UNCHANGED <<lc_templates, notLifecycleVars>>

\* refine_specification(spec, feedback, options) up to the gateway call
RefineSpecification(i) ==
  /\ lc_pc = "idle"
  /\ Len(specs) < MaxSpecs
  /\ i \in 1..Len(specs)
  /\ AwaitGateway(Call("refine", i, <<>>, "", FALSE))
  /\ UNCHANGED <<lc_templates, notLifecycleVars>>

\* translate_specification(spec, target_language) up to the gateway call
TranslateSpecification(i, target_language) ==
  /\ lc_pc = "idle"
  /\ Len(specs) < MaxSpecs
  /\ i \in 1..Len(specs)
  /\ IF specs[i].value.formal_spec.verification_language = target_language
     THEN /\ ReturnValue(specs[i].value,
                         Call("translate", i, <<>>, target_language, FALSE))
          /\ lc_unprompted' = "translate"
     ELSE AwaitGateway(Call("translate", i, <<>>, target_language, FALSE))
  /\ UNCHANGED <<lc_templates, notLifecycleVars>>

\* fix_specification(spec, report) up to the gateway call
FixSpecification(i, report) ==
  /\ lc_pc = "idle"
  /\ Len(specs) < MaxSpecs
  /\ i \in 1..Len(specs)
  /\ IF report.is_valid
     THEN /\ ReturnValue(specs[i].value, Call("fix", i, <<>>, "", TRUE))
          /\ lc_unprompted' = "fix"
     ELSE AwaitGateway(Call("fix", i, <<>>, "", FALSE))
  /\ UNCHANGED <<lc_templates, notLifecycleVars>>

\* the gateway answers: the answer is parsed and the new value is returned
LlmReturns(response) ==
  /\ lc_pc = "awaiting"
  /\ ReturnValue(
       CASE lc_call.op = "generate" ->
              Generated(lc_call.requirements, "Cryptography", lc_call.language, response)
         [] lc_call.op = "refine" -> Refined(specs[lc_call.parent].value, response)
         [] lc_call.op = "translate" ->
              Translated(specs[lc_call.parent].value, lc_call.language, response)
         [] OTHER -> Fixed(specs[lc_call.parent].value, response),
       lc_call)
  /\ UNCHANGED <<lc_templates, lc_unprompted, notLifecycleVars>>

\* the gateway call fails: `?` returns the error
LlmFails(e) ==
  /\ lc_pc = "awaiting"
  /\ lc_result' = Failed(AxiomErrorFrom(e))
  /\ lc_pc' = "idle"
  /\ lc_call' = NoCall
  /\ UNCHANGED <<specs, lc_templates, lc_unprompted, notLifecycleVars>>

LifecycleNext ==
  \/ \E requirements \in RequirementLists, language \in TargetLanguages :
       GenerateSpecification(requirements, language)
  \/ \E i \in 1..MaxSpecs : RefineSpecification(i)
  \/ \E i \in 1..MaxSpecs, language \in TargetLanguages :
       TranslateSpecification(i, language)
  \/ \E i \in 1..MaxSpecs, report \in FixReports : FixSpecification(i, report)
  \/ \E response \in GenerationAnswers : LlmReturns(response)
  \/ \E e \in GatewayErrors : LlmFails(e)

LifecycleSpec == LifecycleInit /\ [][LifecycleNext]_vars

\* ------------------------------ two invocations of the repair loop at once
ConcurrentInit ==
  /\ PipelineInit
  /\ ValidatorIdle
  /\ ParserIdle
  /\ GatewayIdle
  /\ RendererIdle
  /\ LifecycleIdle
  /\ FacadeIdle
  /\ PromptIdle
  /\ ContextIdle
  /\ co = [j \in Invocations |-> NotCalled]
  /\ co_input = [j \in Invocations |-> None]
  /\ co_script = [j \in Invocations |-> <<>>]

\* invocation j receives the outcome of its gateway call
Receives(j, outcome) == co_script' = [co_script EXCEPT ![j] = Append(@, outcome)]

\* fix_specification_with_retry(spec, report) is called as invocation j and
\* runs to its first await
ConcurrentCall(j, spec, report) ==
  /\ co_input[j] = None
  /\ co_input' = [co_input EXCEPT ![j] = Some([spec |-> spec, report |-> report])]
  /\ co' = [co EXCEPT ![Frame(j)] =
             IF report.is_valid THEN ReturnedWith(Ok(report))
             ELSE AttemptLocals(1, spec, report)]
  /\ UNCHANGED <<co_script, notConcurrencyVars>>

\* the repair call of invocation j is answered
ConcurrentFixReturns(j, response) ==
  /\ IsSome(co_input[j])
  /\ co[Frame(j)].pc = "fix_call"
  /\ LET my == co[Frame(j)] IN
       co' = [co EXCEPT ![Frame(j)] =
          [my EXCEPT !.pc = "revalidate",
                     !.fixed_spec = Some(FixedSpecification(my.current_spec[1], response)),
                     !.validation_depth = RevalidationDepth(my.current_report[1])]]
  /\ Receives(j, GwOk(response))
  /\ UNCHANGED <<co_input, notConcurrencyVars>>

\* a gateway call of invocation j fails: `?` returns the error
ConcurrentCallFails(j, e) ==
  /\ IsSome(co_input[j])
  /\ co[Frame(j)].pc \in {"fix_call", "revalidate"}
  /\ co' = [co EXCEPT ![Frame(j)] = ReturnedWith(Err(AxiomErrorFrom(e)))]
  /\ Receives(j, GwErr(e, ""))
  /\ UNCHANGED <<co_input, notConcurrencyVars>>

\* the re-validation of invocation j is answered
ConcurrentRevalidationReturns(j, response) ==
  /\ IsSome(co_input[j])
  /\ co[Frame(j)].pc = "revalidate"
  /\ LET my == co[Frame(j)]
         new_report == ValidateAt(my.validation_depth, response)
     IN co' = [co EXCEPT ![Frame(j)] =
          IF new_report.is_valid
          THEN ReturnedWith(Ok(SuccessReport(new_report, my.attempt, my.fixed_spec[1])))
          ELSE IF my.attempt < MAX_RETRIES
          THEN AttemptLocals(my.attempt + 1, my.fixed_spec[1], new_report)
          ELSE ReturnedWith(Ok(FinalReport(new_report, my.fixed_spec[1])))]
  /\ Receives(j, GwOk(response))
  /\ UNCHANGED <<co_input, notConcurrencyVars>>

ConcurrentNext ==
  \/ \E j \in Invocations, spec \in InputSpecs, report \in ConcurrentReports :
       ConcurrentCall(j, spec, report)
  \/ \E j \in Invocations, response \in ConcurrentFixAnswers :
       ConcurrentFixReturns(j, response)
  \/ \E j \in Invocations, e \in ConcurrentErrors : ConcurrentCallFails(j, e)
  \/ \E j \in Invocations, response \in ConcurrentReviewAnswers :
       ConcurrentRevalidationReturns(j, response)

ConcurrentSpec == ConcurrentInit /\ [][ConcurrentNext]_vars

\* --------------------------------- fix_specification, with its prompt
FixPromptInit ==
  /\ PipelineInit
  /\ ValidatorIdle
  /\ ParserIdle
  /\ GatewayIdle
  /\ RendererIdle
  /\ LifecycleIdle
  /\ FacadeIdle
  /\ ConcurrencyIdle
  /\ ContextIdle
  /\ fp_pc = "idle"
  /\ fp_spec = Some(GivenSpecification)
  /\ fp_report \in { Some(report) : report \in PromptReports }
  /\ fp_prompt = None
  /\ fp_result = None

\* fix_specification(spec, report) up to the gateway call
BuildFixPrompt ==
  /\ fp_pc = "idle"
  /\ IF fp_report[1].is_valid
     THEN /\ fp_pc' = "returned"
          /\ fp_result' = Some([kind |-> "ok", value |-> fp_spec, error |-> ""])
          /\ UNCHANGED fp_prompt
     ELSE /\ fp_pc' = "awaiting"
          /\ fp_prompt' = Some(FixPrompt(fp_spec[1], fp_report[1]))
          /\ UNCHANGED fp_result
  /\ UNCHANGED <<fp_spec, fp_report, notPromptVars>>

\* the repair prompt is answered: the answer is parsed and the fixed
\* Specification returned
FixPromptAnswered(response) ==
  /\ fp_pc = "awaiting"
  /\ fp_pc' = "returned"
  /\ fp_result' = Some([kind |-> "ok", value |-> Some(Fixed(fp_spec[1], response)),
                        error |-> ""])
  /\ UNCHANGED <<fp_spec, fp_report, fp_prompt, notPromptVars>>

\* the gateway call fails: `?` returns the error
FixPromptFails(e) ==
  /\ fp_pc = "awaiting"
  /\ fp_pc' = "returned"
  /\ fp_result' = Some([kind |-> "err", value |-> None, error |-> AxiomErrorFrom(e)])
  /\ UNCHANGED <<fp_spec, fp_report, fp_prompt, notPromptVars>>

FixPromptNext ==
  \/ BuildFixPrompt
  \/ \E response \in ConcurrentFixAnswers : FixPromptAnswered(response)
  \/ \E e \in ConcurrentErrors : FixPromptFails(e)

FixPromptSpec == FixPromptInit /\ [][FixPromptNext]_vars

\* ------------------------------------------------- get_error_context
ErrorContextInit ==
  /\ PipelineInit
  /\ ValidatorIdle
  /\ ParserIdle
  /\ GatewayIdle
  /\ RendererIdle
  /\ LifecycleIdle
  /\ FacadeIdle
  /\ ConcurrencyIdle
  /\ PromptIdle
  /\ ec_error \in { Some(error) : error \in ErrorTexts }
  /\ ec_spec \in { Some(spec) : spec \in HelperSpecifications }
  /\ ec_context = None

GetErrorContextCall ==
  /\ ec_context = None
  /\ ec_context' = Some(GetErrorContext(ec_error[1], ec_spec[1]))
  /\ UNCHANGED <<ec_error, ec_spec, notContextVars>>

ErrorContextNext == GetErrorContextCall

ErrorContextSpec == ErrorContextInit /\ [][ErrorContextNext]_vars

\* ------------------------------------------------- the synchronous facade
FacadeInit ==
  /\ PipelineInit
  /\ ValidatorIdle
  /\ ParserIdle
  /\ GatewayIdle
  /\ RendererIdle
  /\ LifecycleIdle
  /\ FacadeIdle
  /\ PromptIdle
  /\ ContextIdle
  /\ ConcurrencyIdle

\* AxiomSystemImpl::validate_specification / generate_formal_specification up
\* to handle.join(): the arguments and the generator are cloned and moved
\* into the closure of a new thread. Thread creation is taken to succeed.
FacadeCalled(op, depth) ==
  /\ fa_pc = "idle"
  /\ fa_pc' = "joining"
  /\ fa_call' = FacadeCall(op, depth)
  /\ wk_pc' = "spawned"
  /\ UNCHANGED <<wk_result, fa_returns, notFacadeVars>>

\* the worker: tokio::runtime::Runtime::new().unwrap(), then rt.block_on(..)
WorkerStarts(runtime_ok) ==
  /\ wk_pc = "spawned"
  /\ wk_pc' = IF runtime_ok THEN "running" ELSE "panicked"
  /\ UNCHANGED <<fa_pc, fa_call, wk_result, fa_returns, notFacadeVars>>

\* the steps of the generator inside block_on
WorkerRuns(op) == wk_pc = "running" /\ fa_call.op = op

\* a panic below the gateway call unwinds the worker thread
WorkerPanics ==
  /\ wk_pc = "running"
  /\ pending # <<>>
  /\ wk_pc' = "panicked"
  /\ UNCHANGED <<fa_pc, fa_call, wk_result, fa_returns, notFacadeVars>>

\* what the async block evaluates to once the generator has returned
WorkerResult ==
  IF fa_call.op = "validate"
  THEN IF result.kind = "ok" THEN FacadeOk(result.report[1].is_valid)
       ELSE FacadeErr(result.error)
  ELSE IF pc = "generated" THEN FacadeOk(generated[1].formal_spec)
       ELSE FacadeErr(result.error)

\* block_on returns and the closure ends
WorkerFinishes ==
  /\ wk_pc = "running"
  /\ \/ fa_call.op = "validate" /\ pc = "done"
     \/ fa_call.op = "generate" /\ pc \in {"generated", "done"}
  /\ wk_result' = Some(WorkerResult)
  /\ wk_pc' = "finished"
  /\ UNCHANGED <<fa_pc, fa_call, fa_returns, notFacadeVars>>

\* handle.join() returns and the facade returns to its caller
Join ==
  /\ fa_pc = "joining"
  /\ wk_pc \in {"finished", "panicked"}
  /\ fa_returns' = Append(fa_returns, JoinResult(wk_pc, wk_result))
  /\ fa_pc' = "returned"
  /\ UNCHANGED <<fa_call, wk_pc, wk_result, notFacadeVars>>

FacadeNext ==
  \/ \E depth \in Depths : FacadeCalled("validate", depth)
  \/ FacadeCalled("generate", "")
  \/ \E runtime_ok \in BOOLEAN : WorkerStarts(runtime_ok)
  \/ /\ WorkerRuns("generate") /\ pc = "idle"
     /\ \E requirements \in GenerationRequirements, language \in GenerationLanguages :
          GenerateForValidation(requirements, language)
  \/ WorkerRuns("generate") /\ \E response \in GenerationAnswers : GenerationReturns(response)
  \/ WorkerRuns("generate") /\ \E e \in GatewayErrors : GenerationFails(e)
  \/ /\ WorkerRuns("validate") /\ pc = "idle"
     /\ \E spec \in InputSpecs : ValidateSpecification(spec, fa_call.depth)
  \/ WorkerRuns("validate") /\ \E response \in AllReviewAnswers : InitialReviewReturns(response)
  \/ WorkerRuns("validate") /\ \E e \in GatewayErrors : InitialReviewFails(e)
  \/ WorkerRuns("validate") /\ \E response \in FixAnswers : FixReturns(response)
  \/ WorkerRuns("validate") /\ \E e \in GatewayErrors : FixFails(e)
  \/ WorkerRuns("validate") /\ \E response \in AllReviewAnswers : RevalidationReturns(response)
  \/ WorkerRuns("validate") /\ \E e \in GatewayErrors : RevalidationFails(e)
  \/ WorkerPanics
  \/ WorkerFinishes
  \/ Join

FacadeSpec == FacadeInit /\ [][FacadeNext]_vars

\* ------------------------------------------------------- claim vocabulary
Count(seq, x) == Cardinality({ i \in DOMAIN seq : seq[i] = x })

\* the gateway calls issued from inside fix_specification_with_retry
LoopCalls == Count(gatewayLog, "fix") + Count(gatewayLog, "review")

LoopReturned == fixResult.kind # "none"
LoopRan == IsSome(loopInput) /\ ~loopInput[1].is_valid
LoopFailed == failedAt > 0 /\ gatewayLog[failedAt] \in {"fix", "review"}
AllInvalid == \A i \in DOMAIN verdictLog : ~verdictLog[i]
ErrorIssues(issues) == { k \in DOMAIN issues : issues[k].severity = "Error" }

C2_TwoGatewayCalls ==
  (LoopReturned /\ verdictLog = <<FALSE, TRUE>>)
    => /\ Count(gatewayLog, "fix") = 2
       /\ LoopCalls = 2

\* C2 amended: invalid on attempt 1 and valid on attempt 2 makes the loop
\* stop after attempt 2 and never start attempt 3: it has made exactly 2
\* repair calls and 2 re-validation calls, 4 gateway calls in all.
C2_EarlyExit ==
  /\ (Len(verdictLog) >= 2 /\ ~verdictLog[1] /\ verdictLog[2])
       => /\ LoopReturned
          /\ verdictLog = <<FALSE, TRUE>>
          /\ Count(gatewayLog, "fix") = 2
          /\ Count(gatewayLog, "review") = 2
          /\ LoopCalls = 4
          /\ pending = <<>>

C2_Witness == LoopReturned /\ verdictLog = <<FALSE, TRUE>> /\ fixResult.kind = "ok"

\* C3 as stated: if any gateway call made during validate_specification
\* fails, validate_specification returns an error and not an Ok report.
C3_ErrorsPropagate ==
  (entry = "validate_specification" /\ pc = "done" /\ failedAt > 0)
    => result.kind = "err"

\* C4: a gateway failure inside the loop makes fix_specification_with_retry
\* return the error at once: no report, nothing in flight, and no gateway
\* call is issued afterwards.
C4_LoopFailsFast ==
  /\ [](LoopFailed => /\ fixResult.kind = "err"
                      /\ fixResult.report = None
                      /\ pending = <<>>
                      /\ failedAt = Len(gatewayLog))
  /\ [][LoopFailed => gatewayLog' = gatewayLog]_vars

C4_Witness == LoopFailed /\ pc = "done" /\ Len(verdictLog) >= 1

\* C5: called with a valid report, fix_specification_with_retry returns that
\* very report and makes no gateway call.
C5_ValidIsNoOp ==
  (IsSome(loopInput) /\ loopInput[1].is_valid)
    => /\ fixResult = Ok(loopInput[1])
       /\ gatewayLog = <<>>
       /\ pending = <<>>

C5_Witness ==
  /\ IsSome(loopInput) /\ loopInput[1].is_valid /\ pc = "done"
  /\ loopInput[1].issues # <<>>

\* C6: when all 3 attempts leave the specification invalid the loop returns
\* Ok with is_valid = false: the issues of the last re-validation, then one
\* Warning issue whose suggested_fix is the code of the third specification.
C6_ExhaustionIsOk ==
  (LoopReturned /\ LoopRan /\ failedAt = 0 /\ Len(verdictLog) = MAX_RETRIES
     /\ AllInvalid)
    => /\ fixResult.kind = "ok"
       /\ LET r == fixResult.report[1]
              n == Len(r.issues) IN
            /\ ~r.is_valid
            /\ n = Len(lastReview[1].issues) + 1
            /\ SubSeq(r.issues, 1, n - 1) = lastReview[1].issues
            /\ r.issues[n].severity = "Warning"
            /\ r.issues[n].suggested_fix = Some(lastFixed[1].spec_code)
            /\ Count(gatewayLog, "fix") = 3

C6_Witness ==
  /\ LoopReturned /\ LoopRan /\ failedAt = 0 /\ Len(verdictLog) = MAX_RETRIES
  /\ AllInvalid /\ lastReview[1].issues # <<>>
  /\ entry = "validate_specification" /\ result.kind = "ok"

\* C7: when the re-validation of attempt N is the first valid one the loop
\* returns at once a valid report: that re-validation's issues, then exactly
\* one Info issue recording N attempts and carrying the code of attempt N.
C7_SuccessReport ==
  (Len(verdictLog) >= 1 /\ verdictLog[Len(verdictLog)])
    => LET N == Len(verdictLog) IN
       /\ N \in 1..3
       /\ \A i \in 1..(N - 1) : ~verdictLog[i]
       /\ LoopCalls = 2 * N
       /\ pending = <<>>
       /\ fixResult.kind = "ok"
       /\ LET r == fixResult.report[1]
              n == Len(r.issues) IN
            /\ r.is_valid
            /\ n = Len(lastReview[1].issues) + 1
            /\ SubSeq(r.issues, 1, n - 1) = lastReview[1].issues
            /\ r.issues[n].severity = "Info"
            /\ r.issues[n].message.num = N
            /\ r.issues[n].suggested_fix = Some(lastFixed[1].spec_code)

C7_Witness ==
  /\ Len(verdictLog) = 3 /\ verdictLog[3] /\ fixResult.kind = "ok"
  /\ lastReview[1].issues # <<>>

\* C8: the re-validation of an attempt is made at TypeCheck depth if an
\* Error-severity issue of the report being repaired has a message that
\* contains "type", and at Basic depth otherwise.
C8_RevalidationDepth ==
  (pc = "revalidate")
    => LET prior == current_report[1].issues
           expected ==
             IF \E k \in DOMAIN prior :
                  prior[k].severity = "Error" /\ "type" \in prior[k].message.words
             THEN "TypeCheck" ELSE "Basic" IN
       /\ Len(pending) = 1
       /\ pending[1].kind = "review"
       /\ pending[1].depth = expected
       /\ validation_depth = expected

C8_Witness ==
  /\ pc = "revalidate" /\ validation_depth = "TypeCheck" /\ attempt = 2

\* C9: repair attempts are strictly ordered: the loop's gateway calls
\* alternate repair, review, each repair call is issued only once every
\* earlier re-validation has completed, and at most one call is in flight.
C9_StrictOrder ==
  /\ Len(pending) <= 1
  /\ LET first == IF entry = "validate_specification" THEN 2 ELSE 1 IN
       \A i \in first..Len(gatewayLog) :
         gatewayLog[i] = IF (i - first) % 2 = 0 THEN "fix" ELSE "review"
  /\ Count(gatewayLog, "fix") <= Len(verdictLog) + 1
  /\ (pc = "fix_call" => Count(gatewayLog, "review") = Len(verdictLog))

C9_Witness == pc = "fix_call" /\ attempt = 3 /\ Len(pending) = 1

\* C10 as stated: a report returned with is_valid = true by the Validator or
\* by the repair loop holds no issue of severity Error.
C10_ValidHasNoError ==
  /\ (IsSome(lastReview) /\ lastReview[1].is_valid)
       => ErrorIssues(lastReview[1].issues) = {}
  /\ (fixResult.kind = "ok" /\ fixResult.report[1].is_valid)
       => ErrorIssues(fixResult.report[1].issues) = {}

\* C10 amended: a report made with is_valid = true by the Validator or by the
\* repair loop holds an Error issue only for an issue line of the review
\* answer that contains "Error": the Error issues are exactly those lines,
\* and the loop adds none.
ErrorLines(answer) ==
  { i \in DOMAIN answer.lines :
      /\ answer.lines[i].pre \in {"Line ", "Location "}
      /\ "Error" \in answer.lines[i].words }

C10_ErrorsOnlyFromAnswer ==
  /\ (IsSome(lastReview) /\ lastReview[1].is_valid)
       => Cardinality(ErrorIssues(lastReview[1].issues))
            = Cardinality(ErrorLines(lastAnswer[1]))
  /\ (fixResult.kind = "ok" /\ fixResult.report[1].is_valid /\ LoopRan)
       => Cardinality(ErrorIssues(fixResult.report[1].issues))
            = Cardinality(ErrorLines(lastAnswer[1]))

C10_Witness ==
  /\ fixResult.kind = "ok" /\ fixResult.report[1].is_valid /\ LoopRan
  /\ ErrorIssues(fixResult.report[1].issues) # {}

\* ---------------------------------------------------------------- C11
\* the two verdict phrases of each review
VerdictPhrases(depth) ==
  CASE depth = "Basic" ->
         {"the specification syntax is valid: true",
          "is the specification syntax valid? true"}
    [] depth = "TypeCheck" ->
         {"the specification passes type checking: true",
          "does the specification pass type checking? true"}
    [] OTHER ->
         {"the specification can be formally verified: true",
          "can the specification be formally verified as written? true"}

\* the lower-cased answer contains one of the verdict phrases of the depth
HasVerdictPhrase(answer, depth) ==
  \E i \in 1..Len(answer.lines) : \E w \in answer.lines[i].words :
    ToLowercase(w) \in VerdictPhrases(depth)

\* C11: at every depth is_valid is true exactly when the lower-cased answer
\* contains one of the two verdict phrases of that depth, whatever issues
\* are parsed from the answer.
C11_VerdictByPhrase ==
  IsSome(review_report) =>
    (review_report[1].is_valid <=> HasVerdictPhrase(review_answer, review_depth))

\* a report that is valid although an Error issue was parsed
C11_Witness ==
  /\ IsSome(review_report)
  /\ review_report[1].is_valid
  /\ \E k \in 1..Len(review_report[1].issues) :
       review_report[1].issues[k].severity = "Error"

\* ---------------------------------------------------------------- C16
\* C16: an issue line that contains "Error" gives an Error issue even when it
\* also contains "Warning" and whatever the other lines contain; a line with
\* "Warning" and no "Error" gives Warning; any other issue line gives Info.
C16_SeverityOfIssueLine ==
  IsSome(review_report) =>
    \A k \in 1..Len(review_report[1].issues) :
      LET issue == review_report[1].issues[k] IN
        issue.severity =
          IF "Error" \in issue.message.words THEN "Error"
          ELSE IF "Warning" \in issue.message.words THEN "Warning"
          ELSE "Info"

\* an Error issue from a line that also says "Warning", and an Info issue
\* next to a line that says "Error" and is not an issue line
C16_Witness ==
  /\ IsSome(review_report)
  /\ \E k \in 1..Len(review_report[1].issues) :
       /\ {"Error", "Warning"} \subseteq review_report[1].issues[k].message.words
       /\ review_report[1].issues[k].severity = "Error"
  /\ \E k \in 1..Len(review_report[1].issues) :
       review_report[1].issues[k].severity = "Info"
  /\ \E i \in 1..Len(review_answer.lines) :
       review_answer.lines[i] = Ln("", 0, {"Error"})

\* ---------------------------------------------------------------- C17
\* the positions of the issue lines of an answer
IssueLineIdx(answer) ==
  { i \in 1..Len(answer.lines) : answer.lines[i].pre \in {"Line ", "Location "} }

\* the position of the k-th issue line
IssueLineAt(answer, k) ==
  CHOOSE i \in IssueLineIdx(answer) :
    Cardinality({ j \in IssueLineIdx(answer) : j <= i }) = k

\* the suggestion lines between the k-th issue line and the next one
SuggestionIdx(answer, k) ==
  { j \in 1..Len(answer.lines) :
      /\ answer.lines[j].pre = "Suggestion:"
      /\ j > IssueLineAt(answer, k)
      /\ \A i \in IssueLineIdx(answer) : i > IssueLineAt(answer, k) => j < i }

\* C17: the issue list has exactly one issue per answer line that starts with
\* "Line " or "Location ", in the order of the lines, and a "Suggestion:" line
\* sets the suggested_fix of the issue begun by the nearest preceding issue
\* line and of no other issue.
C17_OneIssuePerIssueLine ==
  IsSome(review_report) =>
    LET issues == review_report[1].issues IN
      /\ Len(issues) = Cardinality(IssueLineIdx(review_answer))
      /\ \A k \in 1..Len(issues) :
           /\ issues[k].message = review_answer.lines[IssueLineAt(review_answer, k)]
           /\ issues[k].suggested_fix =
                IF SuggestionIdx(review_answer, k) = {} THEN None
                ELSE Some(Text(<<Ln("", 0, {"add a semicolon"})>>, FALSE))

\* two issues, the suggestion belongs to the first only
C17_Witness ==
  /\ IsSome(review_report)
  /\ Len(review_report[1].issues) = 2
  /\ IsSome(review_report[1].issues[1].suggested_fix)
  /\ review_report[1].issues[2].suggested_fix = None

\* ---------------------------------------------------------------- C18
\* the reports the pipeline holds or has returned
ReportsInHand ==
  { r[1] : r \in { o \in {validation_report, current_report, lastReview,
                            fixResult.report, result.report} : IsSome(o) } }

\* C18: every ValidationReport has tool_validated = false, and tool_output is
\* present only on the report made by a FormalVerification review.
C18_ToolFields ==
  \A r \in ReportsInHand :
    /\ r.tool_validated = FALSE
    /\ IsSome(r.tool_output) =>
         /\ requested_depth = "FormalVerification"
         /\ validation_report = Some(r)

\* validate_specification has returned a FormalVerification report that
\* carries the answer
C18_Witness ==
  /\ result.kind = "ok"
  /\ IsSome(result.report[1].tool_output)
  /\ requested_depth = "FormalVerification"

\* ---------------------------------------------------------------- C12
\* C12: after parse_formal_specification succeeds, spec_code is non-empty
\* for every model answer, answers without a fenced block included.
C12_SpecCodeNonEmpty ==
  IsSome(formal_spec) => formal_spec[1].spec_code # EmptyText

\* ---------------------------------------------------------------- C13
\* the positions of the fence lines of an answer
FenceIdx(answer) ==
  { i \in 1..Len(answer.lines) : answer.lines[i].pre \in {"FENCE", "FENCE_TAG"} }

\* the positions of the lines that lie after an opening fence
InsideIdx(answer) ==
  { i \in 1..Len(answer.lines) \ FenceIdx(answer) :
      Cardinality({ j \in FenceIdx(answer) : j < i }) % 2 = 1 }

\* the k-th smallest element of a set of positions
KthOf(S, k) == CHOOSE i \in S : Cardinality({ j \in S : j <= i }) = k

\* the lines accumulated from the blocks of an answer, each with its newline
Accumulated(answer) ==
  Text([k \in 1..Cardinality(InsideIdx(answer)) |->
          answer.lines[KthOf(InsideIdx(answer), k)]], TRUE)

UnbalancedFences(answer) == Cardinality(FenceIdx(answer)) % 2 = 1

\* C13 as stated: with an odd number of fence lines the parser returns
\* normally, uses what was accumulated, and treats the whole answer as the
\* code when no block was ever closed.
C13_WholeAnswerWhenNoneClosed ==
  (IsSome(formal_spec) /\ UnbalancedFences(model_answer)) =>
    formal_spec[1].spec_code =
      IF Cardinality(FenceIdx(model_answer)) < 2 THEN model_answer
      ELSE Accumulated(model_answer)

\* C13, amended: with an odd number of fence lines the parser returns
\* normally and uses what was accumulated; the whole answer is the code
\* only when no line was accumulated.
C13_AccumulatedElseWhole ==
  (IsSome(formal_spec) /\ UnbalancedFences(model_answer)) =>
    formal_spec[1].spec_code =
      IF InsideIdx(model_answer) = {} THEN model_answer
      ELSE Accumulated(model_answer)

\* one fence that is never closed, and the line after it is the code
C13_Witness ==
  /\ IsSome(formal_spec)
  /\ Cardinality(FenceIdx(model_answer)) = 1
  /\ InsideIdx(model_answer) # {}
  /\ formal_spec[1].spec_code = Accumulated(model_answer)
  /\ formal_spec[1].spec_code # model_answer

\* ---------------------------------------------------------------- C14
\* C14: when the answer has no fence line, spec_code is the entire answer,
\* verbatim.
C14_NoFenceVerbatim ==
  (IsSome(formal_spec) /\ FenceIdx(model_answer) = {}) =>
    formal_spec[1].spec_code = model_answer

\* an answer of two lines without a final newline, taken as it is
C14_Witness ==
  /\ IsSome(formal_spec)
  /\ FenceIdx(model_answer) = {}
  /\ Len(model_answer.lines) = 2
  /\ ~model_answer.nl
  /\ formal_spec[1].spec_code = model_answer

\* ---------------------------------------------------------------- C15
\* the import lines of a code, in source order
ImportLines(code, language) ==
  SelectSeq(code.lines,
            LAMBDA l : \E k \in 1..Len(Patterns(language)) :
                         TrimmedPre(l) = Patterns(language)[k])

\* the first token after the prefix of each import line, stripped
ImportNames(code, language) ==
  [k \in 1..Len(ImportLines(code, language)) |->
     TrimEndMatches(FirstToken(RestOf(ImportLines(code, language)[k])))]

OpenFooBarBaz == <<Ln("open ", 0, {"Foo"}), Ln("open ", 0, {"Bar.Baz"})>>

\* C15 as stated: for every code line whose trimmed form starts with a
\* prefix of the notation the first token after the prefix, stripped of
\* trailing ',' and ';', is recorded, in source order and without
\* de-duplication; `open Foo`, `open Bar.Baz` give ["Foo", "Bar.Baz"].
C15_EveryImportLine ==
  IsSome(formal_spec) =>
    /\ formal_spec[1].dependencies =
         ImportNames(formal_spec[1].spec_code, notation)
    /\ (notation = "FStarLang" /\ formal_spec[1].spec_code.lines = OpenFooBarBaz)
         => formal_spec[1].dependencies = <<"Foo", "Bar.Baz">>

\* C15, amended: the stripped token is recorded when it is not empty.
C15_EveryNonEmptyImport ==
  IsSome(formal_spec) =>
    /\ formal_spec[1].dependencies =
         SelectSeq(ImportNames(formal_spec[1].spec_code, notation),
                   LAMBDA name : name # "")
    /\ (notation = "FStarLang" /\ formal_spec[1].spec_code.lines = OpenFooBarBaz)
         => formal_spec[1].dependencies = <<"Foo", "Bar.Baz">>

\* an import of nothing is skipped, the same name is recorded twice
C15_Witness ==
  /\ IsSome(formal_spec)
  /\ \E i \in 1..Len(formal_spec[1].spec_code.lines) :
       formal_spec[1].spec_code.lines[i] = Ln("open ", 0, {";"})
  /\ formal_spec[1].dependencies = <<"Foo", "Foo">>

\* ---------------------------------------------------------------- C19
\* the credential of the preferred provider: the configured key, else the
\* environment variable of that provider
PreferredCredential ==
  IF IsSome(cfg_api_key) THEN cfg_api_key
  ELSE IF EnvVarName(ToLowercase(preferred_provider)) \in env_keys
  THEN Some(EnvVarName(ToLowercase(preferred_provider)))
  ELSE None

\* the positions in the provider list of the providers with a credential
AvailableIdx == { i \in 1..Len(Providers) : EnvVarName(Providers[i]) \in env_keys }

\* C19: provider selection takes the preferred provider with its credential
\* (configured key, else its environment variable) whenever that is
\* available; only otherwise it walks the provider list in declaration
\* order and takes the first provider with an available credential.
C19_PreferredThenListOrder ==
  key_result.kind # "none" =>
    IF IsSome(PreferredCredential)
    THEN key_result = KeyOk(preferred_provider, PreferredCredential[1])
    ELSE AvailableIdx # {} =>
           \E i \in AvailableIdx :
             /\ \A j \in AvailableIdx : i <= j
             /\ key_result = KeyOk(Providers[i], EnvVarName(Providers[i]))

\* the gateway sends to Anthropic with its key although OpenAI, first in
\* the list, has a key too
C19_Witness ==
  /\ gw_pc = "sending"
  /\ cfg_api_key = None
  /\ {"OPENAI_API_KEY", "ANTHROPIC_API_KEY"} \subseteq env_keys
  /\ http_requests =
       <<HttpRequest("anthropic", "https://api.anthropic.com/v1/messages",
                     "ANTHROPIC_API_KEY")>>

\* ---------------------------------------------------------------- C20
\* C20: when neither the configuration nor any provider environment
\* variable holds a credential, the gateway call fails with the
\* credential-missing error and no HTTP request is sent.
C20_NoCredentialNoRequest ==
  (gw_pc \in {"sending", "done"} /\ cfg_api_key = None /\ env_keys = {}) =>
    /\ gw_pc = "done"
    /\ gw_result = GwErr("ApiError", "API key error")
    /\ key_result = KeyErr("MissingApiKey")
    /\ http_requests = <<>>

\* the gateway call has returned without a credential anywhere
C20_Witness ==
  /\ gw_pc = "done"
  /\ cfg_api_key = None
  /\ env_keys = {}
  /\ gw_result.kind = "err"
  /\ http_requests = <<>>

\* ---------------------------------------------------------------- C21
Is2xx(status) == status >= 200 /\ status <= 299

\* C21: one gateway call sends at most one HTTP request; a transport
\* failure gives NetworkError and a non-2xx status gives HttpError with the
\* status and the response body; both are returned to the caller and
\* neither is retried inside the gateway.
C21_OneRequestNoRetry ==
  /\ Len(http_requests) <= 1
  /\ http_response.kind = "failed" =>
       /\ gw_pc = "done"
       /\ gw_result.kind = "err"
       /\ gw_result.error = "NetworkError"
  /\ (http_response.kind = "response" /\ ~Is2xx(http_response.status)) =>
       /\ gw_pc = "done"
       /\ gw_result.kind = "err"
       /\ gw_result.error = "HttpError"
       /\ gw_result.detail.status = http_response.status
       /\ http_response.body.kind # "unreadable" =>
            gw_result.detail.message = http_response.body

\* the one request was answered 500 with a body, and the call has returned
\* HttpError with both
C21_Witness ==
  /\ Len(http_requests) = 1
  /\ http_response.kind = "response"
  /\ http_response.status = 500
  /\ http_response.body.kind = "invalid_json"
  /\ gw_result.kind = "err"
  /\ gw_result.error = "HttpError"

\* ---------------------------------------------------------------- C22
\* the body holds no text where the provider family has it
UnexpectedShape(provider, body) ==
  \/ body.kind # "json"
  \/ /\ provider = "anthropic"
     /\ ~ /\ body.content.t = "array"
          /\ body.content.items # <<>>
          /\ IsSome(body.content.items[1].text)
     /\ body.content.t # "string"
     /\ body.completion = None
  \/ /\ provider # "anthropic"
     /\ ~ /\ body.choices.t = "array"
          /\ body.choices.items # <<>>
          /\ IsSome(body.choices.items[1].text)

\* C22: a 2xx response whose body is malformed JSON or has an unexpected
\* shape for the selected provider family (an empty choices array, an empty
\* content array, a missing text field) gives ParseError, never a text and
\* never another error kind.
C22_MalformedIsParseError ==
  (/\ http_response.kind = "response"
   /\ Is2xx(http_response.status)
   /\ UnexpectedShape(key_result.provider, http_response.body)) =>
    /\ gw_result.kind = "err"
    /\ gw_result.error = "ParseError"

\* ---------------------------------------------------------------- C23
RECURSIVE SinglePass(_, _)
\* every placeholder of the template replaced by its value, the values
\* left as they are
SinglePass(template, params) ==
  IF template = <<>> THEN <<>>
  ELSE (IF \E k \in DOMAIN params : Head(template) = Placeholder(k)
        THEN params[CHOOSE k \in DOMAIN params : Head(template) = Placeholder(k)]
        ELSE <<Head(template)>>)
         \o SinglePass(Tail(template), params)

\* C23: rendering is single pass: the values are inserted verbatim, and a
\* placeholder that occurs inside a value is never expanded, whichever
\* other parameters are in the mapping.
C23_SinglePass ==
  \A n \in 1..Len(renders) :
    renders[n].kind = "ok" =>
      renders[n].text = SinglePass(prompt_templates[template_name], render_params)

\* ---------------------------------------------------------------- C24
\* C24: rendering the same template with the same mapping twice gives the
\* same text, whatever the order in which the entries are visited.
C24_Deterministic ==
  \A n, m \in 1..Len(renders) : renders[n] = renders[m]

\* ---------------------------------------------- claims on the Specification values
\* the functions that take a &Specification and return a new one
Derivations == {"refine", "translate", "fix"}
Derived(n) == specs[n].call.op \in Derivations
ParentOf(n) == specs[specs[n].call.parent].value
NotationOf(spec) == spec.formal_spec.verification_language
IdSuffix(op) ==
  CASE op = "refine" -> "_refined"
    [] op = "translate" -> "_translated"
    [] OTHER -> "_fixed"

\* C25: along refine / translate / fix the confidence score of the returned
\* value is never above its parent's, and a translation to another notation
\* returns the parent's score times 0.9, which is below the parent's score
C25_ConfidenceNeverIncreases ==
  \A n \in 1..Len(specs) :
    Derived(n) =>
      LET v == specs[n].value
          p == ParentOf(n)
      IN /\ LessEq(v.metadata.confidence_score, p.metadata.confidence_score)
         /\ (specs[n].call.op = "translate" /\ NotationOf(v) # NotationOf(p)) =>
              /\ v.metadata.confidence_score =
                   Times(p.metadata.confidence_score, Fraction(9, 10))
              /\ Less(v.metadata.confidence_score, p.metadata.confidence_score)

\* a generated value was translated to another notation and the translation refined
C25_Witness ==
  /\ Len(specs) = 3
  /\ specs[1].call.op = "generate"
  /\ specs[2].call.op = "translate" /\ specs[2].call.parent = 1
  /\ NotationOf(specs[2].value) # NotationOf(specs[1].value)
  /\ specs[2].value.metadata.confidence_score = Fraction(81, 100)
  /\ specs[3].call.op = "refine" /\ specs[3].call.parent = 2
  /\ specs[3].value.metadata.confidence_score = Fraction(81, 100)

\* no call changes a value it was given or any value returned before
ValuesKept == \A n \in 1..Len(specs) : specs'[n] = specs[n]

\* C26 as stated: refine / translate / fix leave the given value alone and
\* return a value whose id is the parent's with the suffix of the function
\* and whose requirements and properties are the parent's
C26_AlwaysSuffixed ==
  [][/\ ValuesKept
     /\ \A n \in 1..Len(specs') :
          specs'[n].call.op \in Derivations =>
            LET v == specs'[n].value
                p == specs'[specs'[n].call.parent].value
            IN /\ v.id = Append(p.id, IdSuffix(specs'[n].call.op))
               /\ v.source_requirements = p.source_requirements
               /\ v.formal_properties = p.formal_properties]_vars

\* C26: refine / translate / fix leave the given value alone; the returned
\* value has the parent's requirements and properties; it is an equal copy
\* of the parent, id included, when translate is asked for the notation the
\* parent has or fix is given a valid report, and otherwise its id is the
\* parent's with the suffix of the function
C26_SuffixedUnlessClone ==
  [][/\ ValuesKept
     /\ \A n \in 1..Len(specs') :
          specs'[n].call.op \in Derivations =>
            LET v == specs'[n].value
                c == specs'[n].call
                p == specs'[c.parent].value
            IN /\ v.source_requirements = p.source_requirements
               /\ v.formal_properties = p.formal_properties
               /\ IF \/ c.op = "translate" /\ c.language = NotationOf(p)
                     \/ c.op = "fix" /\ c.is_valid
                  THEN v = p
                  ELSE v.id = Append(p.id, IdSuffix(c.op))]_vars

\* a value with properties was fixed under an invalid report, and the fixed
\* value translated to the notation it already had
C26_Witness ==
  /\ Len(specs) = 3
  /\ specs[1].call.op = "given" /\ specs[1].value.formal_properties # <<>>
  /\ specs[2].call.op = "fix" /\ ~specs[2].call.is_valid /\ specs[2].call.parent = 1
  /\ specs[2].value.id = <<"imported", "_fixed">>
  /\ specs[3].call.op = "translate" /\ specs[3].call.parent = 2
  /\ specs[3].value = specs[2].value

\* C29: a generated value has the requirements it was asked for, in the
\* order given, and the notation asked for; refine / translate / fix return
\* a value with the requirements of their parent
C29_RequirementsKept ==
  \A n \in 1..Len(specs) :
    /\ specs[n].call.op = "generate" =>
         /\ specs[n].value.source_requirements = specs[n].call.requirements
         /\ NotationOf(specs[n].value) = specs[n].call.language
    /\ Derived(n) =>
         specs[n].value.source_requirements = ParentOf(n).source_requirements

\* <<"r2", "r1">> was generated for Dafny, then fixed and the fix refined
C29_Witness ==
  /\ Len(specs) = 3
  /\ specs[1].call.op = "generate"
  /\ specs[1].call.requirements = <<"r2", "r1">>
  /\ specs[1].call.language = "DafnyLang"
  /\ specs[2].call.op = "fix" /\ ~specs[2].call.is_valid /\ specs[2].call.parent = 1
  /\ specs[3].call.op = "refine" /\ specs[3].call.parent = 2
  /\ specs[3].value.source_requirements = <<"r2", "r1">>

\* ------------------------------------------------ generation, then validation
\* the answer is one fenced block and nothing else
SingleFencedBlock(answer) ==
  /\ Len(answer.lines) >= 3
  /\ StartsWith(answer.lines[1], "FENCE")
  /\ answer.lines[Len(answer.lines)].pre = "FENCE"
  /\ \A i \in 2..(Len(answer.lines) - 1) : ~StartsWith(answer.lines[i], "FENCE")

\* the lines between the two fence lines, each followed by a newline
InsideFence(answer) == Text(SubSeq(answer.lines, 2, Len(answer.lines) - 1), TRUE)

\* the generation was answered with one fenced block, and the Basic review
\* of the generated specification with the verdict sentence and nothing else
FencedThenValid ==
  /\ IsSome(generationAnswer) /\ SingleFencedBlock(generationAnswer[1])
  /\ entry = "validate_specification"
  /\ requested_depth = "Basic"
  /\ verdictLog = <<>>
  /\ lastAnswer = Some(Text(<<VerdictLine("Basic")>>, FALSE))

\* C30: when generation is answered with a single fenced block and the Basic
\* review with the positive verdict sentence and no issue line, the generated
\* spec_code is the lines inside the fence, each followed by a newline, the
\* validation returns a report with is_valid = true and no issue, and two
\* gateway calls were made in all
C30_FencedThenValid ==
  FencedThenValid =>
    /\ pc = "done"
    /\ generated[1].formal_spec.spec_code = InsideFence(generationAnswer[1])
    /\ result = Ok(Report(TRUE, <<>>, None))
    /\ result.report[1].issues = <<>>
    /\ Len(generationLog) + Len(gatewayLog) = 2
    /\ pending = <<>>

\* a block of two lines was generated and found valid
C30_Witness ==
  /\ FencedThenValid
  /\ pc = "done"
  /\ Len(generated[1].formal_spec.spec_code.lines) = 2
  /\ result.kind = "ok"

\* ------------------------------------------------------ the synchronous facade
\* C28: the facade returns at most once, and only after the worker has
\* ended; what it returns is the value the worker's closure ended with (the
\* pipeline's verdict or its error), and when the worker panicked it is an
\* error value of kind SystemError: the caller never unwinds
C28_JoinedOnce ==
  /\ Len(fa_returns) <= 1
  /\ (fa_returns # <<>>) <=> (fa_pc = "returned")
  /\ fa_returns # <<>> =>
       /\ wk_pc \in {"finished", "panicked"}
       /\ fa_returns[1].kind \in {"ok", "err"}
       /\ wk_pc = "panicked" => fa_returns[1] = FacadeErr("SystemError")
       /\ wk_pc = "finished" => fa_returns[1] = wk_result[1]
       /\ (wk_pc = "finished" /\ fa_call.op = "validate") =>
            /\ pc = "done"
            /\ result.kind = "ok" =>
                 fa_returns[1] = FacadeOk(result.report[1].is_valid)
            /\ result.kind = "err" => fa_returns[1] = FacadeErr(result.error)
       /\ (wk_pc = "finished" /\ fa_call.op = "generate" /\ pc = "generated") =>
            fa_returns[1].value = Some(generated[1].formal_spec)

\* the worker panicked while a re-validation was in flight, and the facade
\* returned the error
C28_Witness ==
  /\ fa_pc = "returned"
  /\ wk_pc = "panicked"
  /\ pc = "revalidate"
  /\ fa_returns = <<FacadeErr("SystemError")>>

\* ------------------------------------------------- concurrent invocations
\* what invocation j has returned so far
ReturnOf(j) == co[Frame(j)].result

\* C27: whatever the interleaving, each of two concurrent invocations has
\* returned exactly what fix_specification_with_retry returns on its own
\* for the same arguments and the gateway outcomes the invocation received,
\* and nothing as long as those outcomes do not reach a return
C27_AsIfAlone ==
  \A j \in Invocations :
    IsSome(co_input[j]) =>
      ReturnOf(j) = RunAlone(co_input[j][1].spec, co_input[j][1].report, co_script[j])

\* one invocation returned after a first successful repair while the other,
\* called earlier, was in its third attempt and returned later
C27_Witness ==
  /\ co[1].pc = "done" /\ co[1].result.kind = "ok" /\ Len(co_script[1]) = 6
  /\ co[2].pc = "done" /\ co[2].result.kind = "ok" /\ Len(co_script[2]) = 2
  /\ ~co_input[2][1].report.is_valid

\* ------------------------------------------- the line number of a parsed issue
\* the number a line carries between "Line " and the next ":", if it has one
OwnLineNumber(line) == IF line.num > 0 THEN Some(line.num) ELSE None

\* C37 as stated: the line_number of every parsed issue is the number of
\* the issue's own line, and is absent when that line carries no number,
\* whatever issue lines came before it
C37_OwnLineOnly ==
  IsSome(review_report) =>
    \A k \in 1..Len(review_report[1].issues) :
      review_report[1].issues[k].line_number =
        OwnLineNumber(review_report[1].issues[k].message)

\* ---------------------------------------------- the components of an answer
\* the contents of the fenced blocks of an answer that are closed and not
\* empty, in order; open: the lines of the block under way, if any
RECURSIVE ClosedBlocks(_, _, _)
ClosedBlocks(lines, i, open) ==
  IF i > Len(lines) THEN <<>>
  ELSE IF StartsWith(lines[i], "FENCE")
  THEN IF IsSome(open)
       THEN (IF open[1] # <<>> THEN <<open[1]>> ELSE <<>>)
              \o ClosedBlocks(lines, i + 1, None)
       ELSE ClosedBlocks(lines, i + 1, Some(<<>>))
  ELSE ClosedBlocks(lines, i + 1,
         IF IsSome(open) THEN Some(Append(open[1], lines[i])) ELSE open)

\* C36 as stated: every closed, non-empty fenced block of the answer has an
\* entry of its own in components, besides "description", whose value is
\* the block's lines, whether its opening fence has a language tag or not
C36_EveryClosedBlockStored ==
  IsSome(formal_spec) =>
    LET blocks == ClosedBlocks(model_answer.lines, 1, None)
        named == DOMAIN formal_spec[1].components \ {0}
    IN \E key \in [1..Len(blocks) -> named] :
         /\ \A k, l \in 1..Len(blocks) : k # l => key[k] # key[l]
         /\ \A k \in 1..Len(blocks) :
              formal_spec[1].components[key[k]] = Text(blocks[k], TRUE)

\* ------------------------------------------------------ the repair prompt
\* the conditional instructions a prompt carries
Instructions(prompt) ==
  { prompt.specific_fixes[k].instruction : k \in 1..Len(prompt.specific_fixes) }

\* the names listed under the instruction to implement missing symbols
MissingNames(prompt) ==
  IF \E k \in 1..Len(prompt.specific_fixes) :
       prompt.specific_fixes[k].instruction = "implement"
  THEN LET k == CHOOSE k \in 1..Len(prompt.specific_fixes) :
                  prompt.specific_fixes[k].instruction = "implement"
       IN prompt.specific_fixes[k].names
  ELSE <<>>

\* the buckets fix_specification builds from the report it was called with
BucketsOfCall == ClassifyIssues(fp_report[1].issues, 1, Buckets(<<>>, <<>>, <<>>))

\* C31: the repair prompt carries the instruction to implement missing
\* symbols, to fix the syntax and to fix the types exactly when the bucket
\* of that name built from the report is not empty, each at most once, and
\* no instruction when the three buckets are empty
C31_InstructionIffBucket ==
  IsSome(fp_prompt) =>
    /\ ("implement" \in Instructions(fp_prompt[1]))
         <=> (BucketsOfCall.missing_functions # <<>>)
    /\ ("fix syntax" \in Instructions(fp_prompt[1]))
         <=> (BucketsOfCall.syntax_issues # <<>>)
    /\ ("fix types" \in Instructions(fp_prompt[1]))
         <=> (BucketsOfCall.type_errors # <<>>)
    /\ Len(fp_prompt[1].specific_fixes) = Cardinality(Instructions(fp_prompt[1]))
    /\ Instructions(fp_prompt[1]) \subseteq {"implement", "fix syntax", "fix types"}

\* a prompt built from a report of two issues that carries the instructions
\* for the missing symbols and for the types but not the one for the syntax
C31_Witness ==
  /\ fp_pc = "awaiting"
  /\ IsSome(fp_prompt)
  /\ Len(fp_report[1].issues) = 2
  /\ Instructions(fp_prompt[1]) = {"implement", "fix types"}
  /\ BucketsOfCall.syntax_issues = <<>>

\* C35 as stated: a prompt built from a report with an issue whose message
\* contains "type" in any case carries the instruction to fix the types
C35_TypeInstructionGiven ==
  (IsSome(fp_prompt)
     /\ \E k \in 1..Len(fp_report[1].issues) :
          MessageContains(LowerMessage(fp_report[1].issues[k].message), "type"))
    => "fix types" \in Instructions(fp_prompt[1])

\* the issues of the report whose message contains "undefined" together
\* with "function" or "predicate", in any case
UndefinedSymbolIssues ==
  { k \in 1..Len(fp_report[1].issues) :
      LET msg == LowerMessage(fp_report[1].issues[k].message) IN
        /\ MessageContains(msg, "undefined")
        /\ MessageContains(msg, "function") \/ MessageContains(msg, "predicate") }

\* C38 as stated: each issue about an undefined function or predicate
\* contributes one name to the list of missing symbols of the prompt
C38_EveryUndefinedNamed ==
  IsSome(fp_prompt) =>
    Len(MissingNames(fp_prompt[1])) = Cardinality(UndefinedSymbolIssues)

\* ------------------------------------------------------ get_error_context
\* C33: whatever the error text and the specification, the context returned
\* has severity Error and carries a suggestion
C33_ErrorWithSuggestion ==
  IsSome(ec_context) =>
    /\ ec_context[1].severity = "Error"
    /\ IsSome(ec_context[1].suggestion)

\* the context was returned for the empty error text and a generated
\* specification
C33_Witness ==
  /\ IsSome(ec_context)
  /\ ec_error = Some(<<>>)
  /\ ec_spec[1].id = <<"spec_now">>

\* --------------------------------------------- generation without a template
\* C32: while the generator has no template named "specification",
\* rendering it fails with the template error whatever the parameters,
\* a generate_specification call returns that error, and no generation
\* prompt reaches the gateway: none is in flight and no value was made by
\* a generation
C32_NoTemplateNoCall ==
  "specification" \notin DOMAIN lc_templates =>
    /\ \A requirements \in RequirementLists, language \in TargetLanguages :
         \A order \in VisitOrders(GenerationParams(requirements, language)) :
           RenderTemplateIn(lc_templates, "specification",
                            GenerationParams(requirements, language), order)
             = RenderErr("TemplateError")
    /\ ~(lc_pc = "awaiting" /\ lc_call.op = "generate")
    /\ lc_unprompted = "generate" => lc_result = Failed(AxiomErrorFrom("TemplateError"))
    /\ \A i \in 1..Len(specs) : specs[i].call.op # "generate"

\* generate_specification failed for want of its template after two other
\* calls had made values
C32_Witness ==
  /\ "specification" \notin DOMAIN lc_templates
  /\ lc_unprompted = "generate"
  /\ lc_result.kind = "err"
  /\ lc_pc = "idle"
  /\ Len(specs) = 2

\* --------------------------------------------------- depth and termination
\* C34 as stated: a step in which validate_specification returns a report
\* with is_valid = true is the answer to a review at the requested depth
C34_ValidAtRequestedDepth ==
  [][(/\ pc # "done" /\ pc' = "done"
      /\ entry' = "validate_specification"
      /\ result'.kind = "ok"
      /\ result'.report[1].is_valid)
       => pending[1].depth = requested_depth]_vars

\* C40 as stated, for the attempt that follows: when an attempt was
\* re-validated at TypeCheck and the loop goes on, the depth chosen for the
\* next attempt is not Basic
C40_DepthOnlyEscalates ==
  [][(/\ pc = "revalidate" /\ pc' = "fix_call"
      /\ validation_depth = "TypeCheck")
       => RevalidationDepth(current_report'[1]) # "Basic"]_vars

\* the gateway calls of the repair loop, in order
LoopCallLog ==
  IF gatewayLog # <<>> /\ Head(gatewayLog) = "initial_review"
  THEN Tail(gatewayLog) ELSE gatewayLog

\* repair and review calls alternate, one pair per attempt, within the
\* bounds of MAX_RETRIES attempts
AlternatesWithinBound ==
  /\ \A k \in 1..Len(LoopCallLog) :
       LoopCallLog[k] = IF k % 2 = 1 THEN "fix" ELSE "review"
  /\ Len(LoopCallLog) <= 2 * MAX_RETRIES
  /\ Len(gatewayLog) <= 2 * MAX_RETRIES + 1
  /\ pc = "fix_call" => Len(LoopCallLog) = 2 * attempt - 1
  /\ pc = "revalidate" => Len(LoopCallLog) = 2 * attempt

\* C39: provided every gateway call returns, a call of
\* validate_specification or of fix_specification_with_retry returns; on the
\* way its repair and review calls alternate strictly, each attempt making
\* one repair call followed by at most one review call, and the repair loop
\* makes at most 6 gateway calls, validate_specification at most 7
C39_TerminatesWithinBound ==
  /\ []AlternatesWithinBound
  /\ (entry # "none") ~> (pc = "done")

\* validate_specification returned after seven gateway calls
C39_Witness ==
  /\ pc = "done"
  /\ entry = "validate_specification"
  /\ result.kind = "ok"
  /\ Len(gatewayLog) = 7

====
